---------------------------- MODULE Spec2Model ----------------------------
(***************************************************************************)
(* Reservation confirmation and node-association core of the PBS server   *)
(* (src/src/server/req_rescq.c): remove_node_from_resv,                   *)
(* remove_host_from_resv, degrade_overlapping_resv, assign_resv_resc and  *)
(* req_confirmresv.  Strings are sequences of one-character strings so    *)
(* that strstr/strchr/memmove are computed as the C code computes them.   *)
(***************************************************************************)
EXTENDS Integers, Sequences, FiniteSets, TLC

(***************************************************************************)
(* Bounds of the model.                                                    *)
(***************************************************************************)
MaxTime == 4
MaxReq == 2
MaxJobs == 1

(***************************************************************************)
(* Program constants.                                                      *)
(***************************************************************************)
PBS_MNTNC_RESV_ID_CHAR == "M"
PBS_RESV_CONFIRM_FAIL == "CONFIRM_FAIL"
PBS_RESV_CONFIRM_SUCCESS == "CONFIRM_SUCCESS"
PBS_RESV_FUTURE_SCH == 2147483647
Digit == [d \in {"0", "1", "2", "3", "4", "5", "6", "7", "8", "9"} |->
            CHOOSE v \in 0..9 : <<"0", "1", "2", "3", "4", "5", "6", "7", "8", "9">>[v + 1] = d]
DEFAULT_PARTITION == "pbs-default"

RESV_UNCONFIRMED == "RESV_UNCONFIRMED"
RESV_CONFIRMED == "RESV_CONFIRMED"
RESV_RUNNING == "RESV_RUNNING"
RESV_DEGRADED == "RESV_DEGRADED"
RESV_BEING_ALTERED == "RESV_BEING_ALTERED"
RESV_IN_CONFLICT == "RESV_IN_CONFLICT"

RESV_START_TIME_MODIFIED == "RESV_START_TIME_MODIFIED"
RESV_END_TIME_MODIFIED == "RESV_END_TIME_MODIFIED"
RESV_SELECT_MODIFIED == "RESV_SELECT_MODIFIED"
RESV_ALTER_FORCED == "RESV_ALTER_FORCED"

PBSE_NONE == "PBSE_NONE"
PBSE_PERM == "PBSE_PERM"
PBSE_UNKRESVID == "PBSE_UNKRESVID"
PBSE_resvFail == "PBSE_resvFail"
PBSE_SYSTEM == "PBSE_SYSTEM"
PBSE_INTERNAL == "PBSE_INTERNAL"
PBSE_BADATVAL == "PBSE_BADATVAL"
PBSE_BADTSPEC == "PBSE_BADTSPEC"
PBSE_BADNODESPEC == "PBSE_BADNODESPEC"
PBSE_UNKNODE == "PBSE_UNKNODE"

(***************************************************************************)
(* The reservations and the nodes of the server.  A reservation is named   *)
(* by its ID string ri_qs.ri_resvID; a node has a name and a host name.    *)
(***************************************************************************)
MaintResv == <<"M", "1">>
ResvA == <<"R", "2">>
ResvB == <<"R", "3">>
Resvs == {MaintResv, ResvA, ResvB}
UnknownResvID == <<"R", "9">>

Nodes == {"v1", "v10", "v2"}
nd_name == [v1 |-> <<"v", "1">>, v10 |-> <<"v", "1", "0">>, v2 |-> <<"v", "2">>]
nd_hostname == [v1 |-> "hostA", v10 |-> "hostB", v2 |-> "hostA"]
Hosts == {"hostA", "hostB"}

(***************************************************************************)
(* C string functions over sequences of characters.                        *)
(***************************************************************************)
Min(a, b) == IF a <= b THEN a ELSE b

\* strstr: 1-based index of the first occurrence of needle, 0 when absent
strstr(hay, needle) ==
    LET hits == {i \in 1..(Len(hay) - Len(needle) + 1) :
                    SubSeq(hay, i, i + Len(needle) - 1) = needle}
    IN IF hits = {} THEN 0 ELSE CHOOSE i \in hits : \A j \in hits : i <= j

\* strchr from position from: index of the first ch at or after from, 0 when absent
strchr(str, from, ch) ==
    LET hits == {i \in from..Len(str) : str[i] = ch}
    IN IF hits = {} THEN 0 ELSE CHOOSE i \in hits : \A j \in hits : i <= j

\* while (*begin != ch) begin--;
scan_back(str, from, ch) ==
    LET hits == {i \in 1..from : str[i] = ch}
    IN IF hits = {} THEN 0 ELSE CHOOSE i \in hits : \A j \in hits : i >= j

\* snprintf(buf, size, "%s", str): at most size-1 characters are written
snprintf(size, str) == SubSeq(str, 1, Min(Len(str), size - 1))

\* memmove(str + begin, str + end, strlen(str + end) + 1): cut [begin, end)
cut(str, begin, end) == SubSeq(str, 1, begin - 1) \o SubSeq(str, end, Len(str))

\* the chunk "(name:c)" of one vnode in an execvnode string
Chunk(n) == <<"(">> \o nd_name[n] \o <<":", "c", ")">>

RECURSIVE JoinChunks(_)
JoinChunks(ns) ==
    IF ns = <<>> THEN <<>>
    ELSE IF Len(ns) = 1 THEN Chunk(ns[1])
    ELSE Chunk(ns[1]) \o <<"+">> \o JoinChunks(Tail(ns))

\* remove the first element of seq that equals x
RECURSIVE RemoveFirst(_, _)
RemoveFirst(seq, x) ==
    IF seq = <<>> THEN <<>>
    ELSE IF Head(seq) = x THEN Tail(seq)
    ELSE <<Head(seq)>> \o RemoveFirst(Tail(seq), x)

SeqToSet(seq) == {seq[i] : i \in 1..Len(seq)}

(***************************************************************************)
(* update_node_rassn(attr, op): the resources named by the chunks of an    *)
(* execvnode string are added to or taken from the nodes' assigned         *)
(* counters.  rassn maps a node to the chunks charged against it.          *)
(***************************************************************************)
RECURSIVE ChunkNames(_)
ChunkNames(str) ==
    LET open == strchr(str, 1, "(")
        colon == IF open = 0 THEN 0 ELSE strchr(str, open, ":")
        close == IF open = 0 THEN 0 ELSE strchr(str, open, ")")
    IN IF open = 0 \/ colon = 0 \/ close = 0 THEN <<>>
       ELSE <<SubSeq(str, open + 1, colon - 1)>> \o
            ChunkNames(SubSeq(str, close + 1, Len(str)))

CountName(str, n) ==
    Cardinality({i \in 1..Len(ChunkNames(str)) : ChunkNames(str)[i] = nd_name[n]})

INCR == "INCR"
DECR == "DECR"
Sign(dir) == IF dir = INCR THEN 1 ELSE -1

update_node_rassn(rassn, str, dir) ==
    [n \in Nodes |-> rassn[n] + Sign(dir) * CountName(str, n)]

(***************************************************************************)
(* The server state handled by one request: s.resv maps a reservation to   *)
(* its resc_resv fields, s.nd_resvp maps a node to its resvinfo list (the  *)
(* reservations occupying it, head first), s.rassn are the nodes'          *)
(* resources-assigned counters, s.tr is the log of the calls made to the   *)
(* collaborators while the request is handled, s.hang tells that the       *)
(* handler entered a loop it never leaves.                                 *)
(***************************************************************************)
Ev(s, tag, r) == [s EXCEPT !.tr = Append(@, <<tag, r>>)]

\* free_rattr(presv, RESV_ATR_resv_nodes): the unset attribute is <<>>
Unset == <<>>
is_rattr_set(str) == str # Unset

\* resv_setResvState(presv, state, sub)
resv_setResvState(s, r, state, sub) ==
    [s EXCEPT !.resv[r].ri_state = state, !.resv[r].ri_substate = sub]

\* resv_save_db(presv): the saved copy of the reservation
resv_save_db(s, r) ==
    Ev([s EXCEPT !.resv[r].db =
            [ri_state |-> s.resv[r].ri_state,
             ri_substate |-> s.resv[r].ri_substate,
             resv_nodes |-> s.resv[r].resv_nodes]], "resv_save_db", r)

\* set_resv_retry(presv, t): the retry timer of the reservation replaces
\* any earlier one and fires at t; unset_resv_retry(presv) removes it
\* (a timer is the set of its pending fire times)
set_resv_retry(s, r, t) == [s EXCEPT !.resv[r].retry = {t}]
unset_resv_retry(s, r) == [s EXCEPT !.resv[r].retry = {}]

\* change_enableORstart(presv, Q_CHNG_START, value): the started attribute
\* of the reservation's queue
change_enableORstart(s, r, value) ==
    Ev([s EXCEPT !.resv[r].qstarted = value], "change_start", r)

\* set_resc_assigned(presv, 1, dir): the resources of the reservation's
\* resv_nodes are added to or taken from the assigned counters
set_resc_assigned(s, r, dir) ==
    Ev([s EXCEPT !.rassn = update_node_rassn(@, s.resv[r].resv_nodes, dir),
                 !.resv[r].charge = @ + Sign(dir)], dir, r)

(***************************************************************************)
(* remove_node_from_resv(presv, pnode).  fail is the set of nodes for      *)
(* which the malloc of tmp_buf fails during this request.                  *)
(***************************************************************************)
strip_plus_ends_only(nodes) ==
    LET a == IF nodes[1] = "+" THEN Tail(nodes) ELSE nodes
    IN IF Len(a) > 0 /\ a[Len(a)] = "+" THEN SubSeq(a, 1, Len(a) - 1) ELSE a

\* lines 320-337: the extra '+' left by the removal of a chunk is removed
strip_plus(nodes) ==
    LET a == IF nodes[1] = "+" THEN Tail(nodes) ELSE nodes
        b == IF Len(a) > 0 /\ a[Len(a)] = "+" THEN SubSeq(a, 1, Len(a) - 1) ELSE a
        pp == strstr(b, <<"+", "+">>)
    IN IF pp # 0 THEN cut(b, pp, pp + 1) ELSE b

strip_chunk_queue_kept(s, r, found) ==
    LET str == s.resv[r].resv_nodes
        begin == scan_back(str, found, "(")
        end == strchr(str, begin, ")") + 1
        s1 == IF s.resv[r].ri_giveback = 1
              THEN [s EXCEPT !.rassn = update_node_rassn(@, SubSeq(str, begin, end - 1), DECR)]
              ELSE s
        rest == cut(str, begin, end)
    IN IF Len(rest) = 0
       THEN [s1 EXCEPT !.resv[r].resv_nodes = Unset]
       ELSE [s1 EXCEPT !.resv[r].resv_nodes = strip_plus(rest)]

\* lines 279-338: the chunk around the match at found is taken out
strip_chunk(s, r, found) ==
    LET str == s.resv[r].resv_nodes
        begin == scan_back(str, found, "(")
        end == strchr(str, begin, ")") + 1
        s1 == IF s.resv[r].ri_giveback = 1
              THEN [s EXCEPT !.rassn = update_node_rassn(@, SubSeq(str, begin, end - 1), DECR)]
              ELSE s
        rest == cut(str, begin, end)
    IN IF Len(rest) = 0
       THEN change_enableORstart([s1 EXCEPT !.resv[r].resv_nodes = Unset], r, FALSE)
       ELSE [s1 EXCEPT !.resv[r].resv_nodes = strip_plus(rest)]

\* lines 343-352: the first resvinfo of the node with the reservation's ID
unlink_resvinfo(list, r) == RemoveFirst(list, r)

remove_node_from_resv(s, r, n, fail) ==
    IF n \in fail THEN s
    ELSE LET tmp_buf == snprintf(Len(nd_name[n]) + 1, nd_name[n] \o <<":">>)
             str == s.resv[r].resv_nodes
             found == IF is_rattr_set(str) THEN strstr(str, tmp_buf) ELSE 0
             s1 == IF found # 0 THEN strip_chunk(s, r, found) ELSE s
         IN [s1 EXCEPT !.nd_resvp[n] = unlink_resvinfo(@, r)]

(***************************************************************************)
(* remove_host_from_resv(presv, hostname): rest is the part of             *)
(* ri_pbsnode_list still to visit, kept the part already visited and kept. *)
(***************************************************************************)
RECURSIVE remove_host_loop(_, _, _, _, _, _)
remove_host_loop(s, r, hostname, fail, rest, kept) ==
    IF rest = <<>> THEN [s EXCEPT !.resv[r].ri_pbsnode_list = kept]
    ELSE IF nd_hostname[Head(rest)] = hostname
         THEN remove_host_loop(remove_node_from_resv(s, r, Head(rest), fail),
                               r, hostname, fail, Tail(rest), kept)
         ELSE remove_host_loop(s, r, hostname, fail, Tail(rest), Append(kept, Head(rest)))

remove_host_every_node(s, r, hostname, fail) ==
    LET held == s.resv[r].ri_pbsnode_list
        others == {n \in Nodes : nd_hostname[n] = hostname /\ n \notin SeqToSet(held)}
    IN remove_host_loop(s, r, hostname, fail,
                        held \o (IF others = {} THEN <<>> ELSE <<CHOOSE n \in others : TRUE>>),
                        <<>>)

remove_host_from_resv(s, r, hostname, fail) ==
    remove_host_loop(s, r, hostname, fail, s.resv[r].ri_pbsnode_list, <<>>)

(***************************************************************************)
(* degrade_overlapping_resv(presv).                                        *)
(***************************************************************************)
in_conflict_any_time(s, r, t) ==
    /\ t[1] # PBS_MNTNC_RESV_ID_CHAR
    /\ s.resv[t].ri_state # RESV_UNCONFIRMED
    /\ r # t

\* lines 417-425: the reservation t found in a node's list conflicts with r
in_conflict(s, r, t) ==
    /\ t[1] # PBS_MNTNC_RESV_ID_CHAR
    /\ s.resv[t].ri_state # RESV_UNCONFIRMED
    /\ r # t
    /\ s.resv[r].ri_stime <= s.resv[t].ri_etime
    /\ s.resv[r].ri_etime >= s.resv[t].ri_stime

\* lines 413-443: index of the first conflicting entry of the node's list
first_conflict(s, r, n) ==
    LET hits == {i \in 1..Len(s.nd_resvp[n]) : in_conflict(s, r, s.nd_resvp[n][i])}
    IN IF hits = {} THEN 0 ELSE CHOOSE i \in hits : \A j \in hits : i <= j

\* lines 427-437: the conflicting reservation is degraded and evicted
evict(s, t, n, fail) ==
    LET s1 == set_resv_retry(s, t, s.time_now)
        s2 == IF s1.resv[t].ri_state = RESV_CONFIRMED
              THEN resv_setResvState(s1, t, RESV_DEGRADED, RESV_IN_CONFLICT)
              ELSE resv_setResvState(s1, t, s1.resv[t].ri_state, RESV_IN_CONFLICT)
        s3 == remove_host_from_resv(s2, t, nd_hostname[n], fail)
    IN resv_save_db(s3, t)

\* one pass over the node's list that stops at the first eviction
scan_node_once(s, r, n, fail) ==
    IF first_conflict(s, r, n) = 0 THEN s
    ELSE evict(s, s.nd_resvp[n][first_conflict(s, r, n)], n, fail)

\* lines 410-445: the do-while over one node; a pass that finds a conflict
\* and changes nothing is repeated forever
RECURSIVE scan_node(_, _, _, _)
scan_node(s, r, n, fail) ==
    LET i == first_conflict(s, r, n)
        s2 == evict(s, s.nd_resvp[n][i], n, fail)
    IN IF i = 0 THEN s
       ELSE IF [s2 EXCEPT !.tr = <<>>] = [s EXCEPT !.tr = <<>>]
            THEN [s EXCEPT !.hang = TRUE]
            ELSE scan_node(s2, r, n, fail)

RECURSIVE degrade_loop(_, _, _, _)
degrade_loop(s, r, pl, fail) ==
    IF pl = <<>> \/ s.hang THEN s
    ELSE degrade_loop(scan_node(s, r, Head(pl), fail), r, Tail(pl), fail)

degrade_overlapping_resv(s, r, fail) ==
    degrade_loop(s, r, s.resv[r].ri_pbsnode_list, fail)

(***************************************************************************)
(* Collaborators of req_confirmresv.                                       *)
(***************************************************************************)
\* resv_purge(presv): the reservation is freed, its timers are deleted and
\* it is taken out of every node's list
resv_purge(s, r) ==
    Ev([s EXCEPT !.resv[r].purged = TRUE,
                 !.resv[r].retry = {},
                 !.resv[r].time4resv = {},
                 !.resv[r].endwindow = {},
                 !.nd_resvp = [n \in Nodes |-> SelectSeq(s.nd_resvp[n], LAMBDA x : x # r)]],
       "resv_purge", r)

\* free_resvNodes(presv): every node held is released and resv_nodes unset
RECURSIVE release_nodes(_, _, _)
release_nodes(nd, r, pl) ==
    IF pl = <<>> THEN nd
    ELSE release_nodes([nd EXCEPT ![Head(pl)] = unlink_resvinfo(@, r)], r, Tail(pl))

free_resvNodes(s, r) ==
    Ev([s EXCEPT !.nd_resvp = release_nodes(@, r, s.resv[r].ri_pbsnode_list),
                 !.resv[r].ri_pbsnode_list = <<>>,
                 !.resv[r].resv_nodes = Unset], "free_resvNodes", r)

\* the node whose name is the given string, "" when there is none
NodeOfName(name) ==
    IF \E n \in Nodes : nd_name[n] = name
    THEN CHOOSE n \in Nodes : nd_name[n] = name ELSE ""

RECURSIVE NodesOfNames(_)
NodesOfNames(names) ==
    IF names = <<>> THEN <<>>
    ELSE <<NodeOfName(Head(names))>> \o NodesOfNames(Tail(names))

\* set_nodes(presv, RESC_RESV_OBJECT, spec, &node_str, ...): placement.  On
\* success every node of the spec gets a resvinfo for the reservation at
\* the head of its list, the node joins ri_pbsnode_list and node_str is
\* the canonical spec.
RECURSIVE link_nodes(_, _, _)
link_nodes(nd, r, pl) ==
    IF pl = <<>> THEN nd
    ELSE link_nodes([nd EXCEPT ![Head(pl)] = <<r>> \o @], r, Tail(pl))

set_nodes(s, r, vnodes, placement_ok) ==
    LET pl == NodesOfNames(ChunkNames(vnodes))
    IN IF ~placement_ok \/ pl = <<>> \/ \E i \in 1..Len(pl) : pl[i] = ""
       THEN [s |-> Ev(s, "set_nodes_failed", r), rc |-> PBSE_UNKNODE, node_str |-> Unset]
       ELSE [s |-> Ev([s EXCEPT !.nd_resvp = link_nodes(@, r, pl),
                                !.resv[r].ri_pbsnode_list = @ \o pl], "set_nodes", r),
             rc |-> PBSE_NONE, node_str |-> JoinChunks(pl)]

\* assign_resv_resc(presv, vnodes, svr_init)
assign_resv_resc(s, r, vnodes, placement_ok) ==
    IF vnodes = <<>> THEN [s |-> s, rc |-> PBSE_BADNODESPEC]
    ELSE LET res == set_nodes(s, r, vnodes, placement_ok)
         IN IF res.rc = PBSE_NONE
            THEN [s |-> [res.s EXCEPT !.resv[r].resv_nodes = res.node_str], rc |-> res.rc]
            ELSE [s |-> res.s, rc |-> res.rc]

\* revert_alter_reservation(presv): the attributes saved when the alter
\* request was accepted are restored
revert_alter_reservation(s, r) ==
    Ev([s EXCEPT !.resv[r].ri_stime = s.resv[r].ra_stime,
                 !.resv[r].ri_duration = s.resv[r].ra_duration,
                 !.resv[r].ri_etime = s.resv[r].ra_stime + s.resv[r].ra_duration,
                 !.resv[r].ri_state = s.resv[r].ra_state,
                 !.resv[r].ra_flags = {}], "revert_alter", r)

\* determine_resv_retry(presv): half-way between now and the start, or a
\* fixed delay after the start when that is not in the future
RESV_RETRY_DELAY == 1
determine_resv_retry(s, r) ==
    LET mid == s.time_now + ((s.resv[r].ri_stime - s.time_now) \div 2)
    IN IF s.resv[r].ri_stime > s.time_now /\ mid > s.time_now THEN mid
       ELSE s.resv[r].ri_stime + RESV_RETRY_DELAY

\* eval_resvState(presv, RESVSTATE_gen_task_Time4resv, 0, &state, &sub)
eval_resvState(s, r) ==
    LET was_running == \/ s.resv[r].ri_state = RESV_RUNNING
                       \/ /\ s.resv[r].ri_state = RESV_BEING_ALTERED
                          /\ s.resv[r].ra_state = RESV_RUNNING
    IN IF was_running /\ s.resv[r].ri_stime <= s.time_now
       THEN RESV_RUNNING ELSE RESV_CONFIRMED

\* gen_task_Time4resv(presv), gen_task_EndResvWindow(presv): the timed task
\* replaces the earlier one of its kind
gen_task_Time4resv(s, r) ==
    Ev([s EXCEPT !.resv[r].time4resv = {s.resv[r].ri_stime}], "gen_task_Time4resv", r)
gen_task_EndResvWindow(s, r) ==
    Ev([s EXCEPT !.resv[r].endwindow = {s.resv[r].ri_etime}], "gen_task_EndResvWindow", r)

\* create_resv_destination(presv): the destination of a request rebuilt
\* from the reservation's resv_nodes
create_resv_destination(s, r) == s.resv[r].resv_nodes

(***************************************************************************)
(* req_confirmresv(preq).  The request is handled in stages over a context *)
(* c: c.s the server state, c.r the reservation, c.done set once the       *)
(* request was answered (the function returned), c.ext, c.resch and        *)
(* c.destin the request's rq_extend, rq_resch and rq_destin, and the       *)
(* locals is_degraded, is_being_altered (iba), is_confirmed,               *)
(* next_execvnode and partition_name.  env holds what the collaborators    *)
(* answer during this request: env.fault names the one call that fails,    *)
(* env.fail the nodes whose malloc fails in remove_node_from_resv,         *)
(* env.stale whether memory read after it was freed still holds the old    *)
(* values.                                                                 *)
(***************************************************************************)
req_reject(c, code) == [c EXCEPT !.s = Ev(c.s, "req_reject", code), !.done = TRUE]
reply_ack(c) == [c EXCEPT !.s = Ev(c.s, "reply_ack", c.r), !.done = TRUE]

\* reply_text(presv->ri_brp, PBSE_NONE, buf); presv->ri_brp = NULL;
reply_text(s, r, text) ==
    Ev([s EXCEPT !.resv[r].replies = @ + 1, !.resv[r].ri_brp = FALSE], text, r)

find_resv(s, id) == id \in Resvs /\ ~s.resv[id].purged

\* lines 743-746, 770-773, 903-906: the guarded decrement
uncharge(s, r) ==
    IF s.resv[r].ri_giveback = 1
    THEN [set_resc_assigned(s, r, DECR) EXCEPT !.resv[r].ri_giveback = 0]
    ELSE s

charge_unguarded(s, r) ==
    [set_resc_assigned(s, r, INCR) EXCEPT !.resv[r].ri_giveback = 1]

\* lines 782-785: the guarded increment
charge(s, r) ==
    IF s.resv[r].ri_giveback = 0
    THEN [set_resc_assigned(s, r, INCR) EXCEPT !.resv[r].ri_giveback = 1]
    ELSE s

forced_before_quota(state, flags, quota) ==
    state = RESV_BEING_ALTERED /\ RESV_ALTER_FORCED \in flags

\* lines 585-591: a forced alteration is enforced once every scheduler
\* that was asked has answered
forced(state, flags, quota) ==
    state = RESV_BEING_ALTERED /\ RESV_ALTER_FORCED \in flags /\ quota

quota_always(sv) == TRUE

\* line 564: every scheduler that was asked has answered
quota_reached(sv) == sv.rep_sched_count >= sv.req_sched_count

\* lines 564-583: the reply quota is exhausted on a denial
deny_quota(s, r, iba, is_confirmed) ==
    LET sv == s.resv[r]
        a == IF sv.ri_brp /\ sv.interactive /\ RESV_ALTER_FORCED \notin sv.ra_flags
             THEN reply_text([s EXCEPT !.resv[r].interactive = FALSE], r, "reply_DENIED")
             ELSE s
    IN IF iba = {} /\ ~is_confirmed
       THEN resv_purge(Ev(a, "account_recordResv", r), r)
       ELSE a

deny_degraded_at_start(s, r) == set_resv_retry(s, r, s.resv[r].ri_stime)

\* lines 558-562: the retry of a degraded reservation is put off
deny_degraded(s, r) == set_resv_retry(s, r, determine_resv_retry(s, r))

\* lines 555-621: the scheduler denied the request
deny(c, env) ==
    IF c.done \/ c.ext.kind # PBS_RESV_CONFIRM_FAIL THEN c
    ELSE
    LET r == c.r
        quota == quota_reached(c.s.resv[r])
        s1 == IF c.is_degraded /\ c.iba = {}
              THEN deny_degraded(c.s, r)
              ELSE IF quota THEN deny_quota(c.s, r, c.iba, c.is_confirmed) ELSE c.s
        freed == s1.resv[r].purged
        \* line 585 reads the reservation, also when line 581 freed it
        state == IF freed /\ ~env.stale THEN RESV_BEING_ALTERED ELSE s1.resv[r].ri_state
        flags == IF freed /\ ~env.stale THEN {} ELSE s1.resv[r].ra_flags
        s2 == IF freed THEN Ev(s1, "read_freed", "ri_state") ELSE s1
        s3 == IF state = RESV_BEING_ALTERED /\ RESV_ALTER_FORCED \notin flags
              THEN IF freed THEN Ev(s2, "write_freed", "revert_alter")
                   ELSE revert_alter_reservation(s2, r)
              ELSE s2
        force_requested == forced(state, flags, quota)
        s4 == IF c.iba # {} THEN [s3 EXCEPT !.resv[r].alter_revert = FALSE] ELSE s3
        s5 == [s4 EXCEPT !.resv[r].ra_flags = @ \ {RESV_ALTER_FORCED}]
    IN IF ~force_requested THEN reply_ack([c EXCEPT !.s = s4])
       ELSE IF env.fault = "asprintf" THEN req_reject([c EXCEPT !.s = s5], PBSE_SYSTEM)
       ELSE IF is_rattr_set(s5.resv[r].resv_nodes) /\ env.fault = "create_destination"
            THEN req_reject([c EXCEPT !.s = s5], PBSE_SYSTEM)
       ELSE [c EXCEPT !.s = s5,
                      !.ext = [kind |-> PBS_RESV_CONFIRM_SUCCESS,
                               partition |-> s5.resv[r].partition],
                      !.resch = s5.resv[r].ri_stime,
                      !.destin = IF is_rattr_set(s5.resv[r].resv_nodes)
                                 THEN create_resv_destination(s5, r) ELSE c.destin]

set_start_keeps_end(s, r, newstart) ==
    [s EXCEPT !.resv[r].ri_stime = newstart]

\* lines 627-633: a start time passed in the confirmation
set_start(s, r, newstart) ==
    [s EXCEPT !.resv[r].ri_stime = newstart,
              !.resv[r].ri_etime = newstart + s.resv[r].ri_duration]

\* lines 623-633
new_start(c) ==
    IF c.done THEN c
    ELSE LET s1 == IF c.iba # {} THEN [c.s EXCEPT !.resv[c.r].alter_revert = FALSE] ELSE c.s
         IN [c EXCEPT !.s = IF c.resch # 0 THEN set_start(s1, c.r, c.resch) ELSE s1]

\* atoi over the digits of str, acc the value read so far
RECURSIVE atoi(_, _)
atoi(str, acc) ==
    IF str = <<>> \/ Head(str) \notin DOMAIN Digit THEN acc
    ELSE atoi(Tail(str), 10 * acc + Digit[Head(str)])

\* get_execvnodes_count(str): the number in front of the '#', 0 when the
\* string has no '#'
get_execvnodes_count(str) ==
    IF strchr(str, 1, "#") = 0 THEN 0 ELSE atoi(str, 0)

\* the segments "<execvnode>[<range>]" of str, each without its range
RECURSIVE Segments(_)
Segments(str) ==
    LET open == strchr(str, 1, "[")
        close == IF open = 0 THEN 0 ELSE strchr(str, open, "]")
    IN IF open = 0 \/ close = 0 THEN <<>>
       ELSE <<SubSeq(str, 1, open - 1)>> \o Segments(SubSeq(str, close + 1, Len(str)))

\* unroll_execvnode_seq(str, &tofree): the execvnodes of the occurrences,
\* first occurrence first; <<>> (NULL) when fewer segments are found than
\* the count in front of the '#' declares
unroll_execvnode_seq(str) ==
    LET segs == Segments(SubSeq(str, strchr(str, 1, "#") + 1, Len(str)))
    IN IF Len(segs) < get_execvnodes_count(str) THEN <<>>
       ELSE SubSeq(segs, 1, get_execvnodes_count(str))

\* lines 689-703: on a confirmation that is no reconfirmation the end of
\* the first occurrence is put on the timed task list and the index set to 1
first_occurrence(c, env) ==
    IF c.done \/ c.is_degraded THEN c
    ELSE IF c.s.resv[c.r].ri_stime # PBS_RESV_FUTURE_SCH /\ env.fault = "endwindow"
         THEN req_reject(c, PBSE_SYSTEM)
    ELSE [c EXCEPT !.s = [(IF c.s.resv[c.r].ri_stime # PBS_RESV_FUTURE_SCH
                           THEN gen_task_EndResvWindow(c.s, c.r) ELSE c.s)
                          EXCEPT !.resv[c.r].resv_idx = 1]]

\* line 710
remaining_occurrences(sv) == sv.resv_count - sv.resv_idx + 1

\* lines 708-722: the execvnodes given must be those of the occurrences left
occurrences_left(c) ==
    IF c.done \/ c.iba # {} THEN c
    ELSE IF get_execvnodes_count(c.destin) # remaining_occurrences(c.s.resv[c.r])
         THEN req_reject(c, PBSE_BADATVAL)
    ELSE IF remaining_occurrences(c.s.resv[c.r]) > 0
         THEN [c EXCEPT !.s.resv[c.r].resv_execvnodes = c.destin]
    ELSE c

\* lines 647-687: the execvnode of the next occurrence
unroll(c, env) ==
    IF get_execvnodes_count(c.destin) = 0 THEN req_reject(c, PBSE_INTERNAL)
    ELSE IF env.fault = "strdup" THEN req_reject(c, PBSE_SYSTEM)
    ELSE IF unroll_execvnode_seq(c.destin) = <<>> THEN req_reject(c, PBSE_SYSTEM)
    ELSE IF env.fault = "strdup_next" THEN req_reject(c, PBSE_SYSTEM)
    ELSE [c EXCEPT !.next_execvnode = unroll_execvnode_seq(c.destin)[1]]

\* lines 642-722: the execvnodes of a standing reservation
decode_standing(c, env) == occurrences_left(first_occurrence(unroll(c, env), env))

\* lines 723-729: the execvnode of an advance reservation
decode_advance(c, env) ==
    IF env.fault = "strdup" THEN req_reject(c, PBSE_SYSTEM)
    ELSE [c EXCEPT !.next_execvnode = c.destin]

\* lines 731-736: is the reservation still viable
viable(c, env) ==
    IF c.done THEN c
    ELSE IF env.fault = "not_viable" THEN req_reject(c, PBSE_BADTSPEC)
    ELSE c

\* lines 642-736: the execvnode to assign, the viability
decode(c, env) ==
    IF c.done THEN c
    ELSE viable(IF c.s.resv[c.r].standing THEN decode_standing(c, env)
                ELSE decode_advance(c, env), env)

\* lines 741-761: the nodes of a degraded reservation are freed
release_degraded(c, env) ==
    IF c.done THEN c
    ELSE
    LET r == c.r
        s1 == IF c.is_degraded /\ c.s.resv[r].ri_state = RESV_RUNNING
              THEN uncharge(c.s, r) ELSE c.s
        s2 == IF c.is_degraded
              THEN [unset_resv_retry(free_resvNodes(s1, r), r) EXCEPT
                        !.resv[r].ri_vnodes_down = 0]
              ELSE s1
    IN IF RESV_END_TIME_MODIFIED \in c.iba
       THEN IF env.fault = "endwindow" THEN req_reject([c EXCEPT !.s = s2], PBSE_SYSTEM)
            ELSE [c EXCEPT !.s = gen_task_EndResvWindow(s2, r)]
       ELSE [c EXCEPT !.s = s2]

\* lines 767-793: the nodes are assigned and the resources charged
assign(c, env) ==
    IF c.done THEN c
    ELSE
    LET r == c.r
        s1 == IF RESV_SELECT_MODIFIED \in c.iba /\ c.s.resv[r].ri_stime < c.s.time_now
              THEN uncharge(c.s, r) ELSE c.s
        s2 == IF c.iba # {} THEN free_resvNodes(s1, r) ELSE s1
        res == assign_resv_resc(s2, r, c.next_execvnode, env.fault # "set_nodes")
        s3 == IF /\ res.s.resv[r].ri_stime < res.s.time_now
                 /\ (c.is_degraded \/ RESV_SELECT_MODIFIED \in c.iba)
              THEN charge(res.s, r) ELSE res.s
    IN IF res.rc # PBSE_NONE THEN req_reject([c EXCEPT !.s = s3], res.rc)
       ELSE [c EXCEPT !.s = s3]

\* lines 800-805: the task that starts the reservation
start_task(c, env) ==
    IF c.done THEN c
    ELSE IF ~c.is_degraded /\ (c.iba = {} \/ RESV_START_TIME_MODIFIED \in c.iba)
         THEN IF env.fault = "time4resv" THEN req_reject(c, PBSE_SYSTEM)
              ELSE [c EXCEPT !.s = gen_task_Time4resv(c.s, c.r)]
         ELSE c

\* lines 812-861: the new state, the partition, the save
new_state(c, env) ==
    IF c.done THEN c
    ELSE
    LET r == c.r
        state == eval_resvState(c.s, r)
        s1 == resv_setResvState(c.s, r, state, state)
        success == c.ext.kind = PBS_RESV_CONFIRM_SUCCESS
        partition_name == IF ~success THEN ""
                          ELSE IF c.ext.partition # "" THEN c.ext.partition
                          ELSE DEFAULT_PARTITION
        c1 == [c EXCEPT !.s = s1, !.is_degraded = IF success THEN FALSE ELSE @]
        s2 == [s1 EXCEPT !.resv[r].partition = partition_name]
    IN IF success /\ env.fault = "strdup_partition" THEN req_reject(c1, PBSE_SYSTEM)
       ELSE IF state = RESV_CONFIRMED /\ partition_name # ""
       THEN IF env.fault = "strdup_qname"
            THEN req_reject([c1 EXCEPT !.s = Ev(s2, "log_err", PBSE_INTERNAL)], PBSE_SYSTEM)
            ELSE IF env.fault = "find_queuebyname"
                 THEN req_reject([c1 EXCEPT !.s = Ev(s2, "log_err", PBSE_INTERNAL)],
                                 PBSE_INTERNAL)
            ELSE [c1 EXCEPT !.s = resv_save_db(
                        [s2 EXCEPT !.resv[r].qpartition = partition_name], r)]
       ELSE [c1 EXCEPT !.s = resv_save_db(s1, r)]

\* cnvrt_qmove(presv), lines 176-218: the job named by the convert
\* attribute is moved into the reservation's queue
cnvrt_qmove(s, r, env) ==
    IF env.fault = "cnvrt_EndResvWindow" THEN [s |-> resv_purge(s, r), rc |-> -1]
    ELSE LET s1 == gen_task_EndResvWindow(s, r)
         IN IF env.fault \in {"cnvrt_find_job", "cnvrt_alloc_br"}
            THEN [s |-> resv_purge(s1, r), rc |-> -1]
            ELSE IF env.fault = "cnvrt_local_move"
                 THEN [s |-> Ev(s1, "cnvrt_local_move_failed", r), rc |-> -1]
                 ELSE [s |-> Ev(s1, "cnvrt_local_move", r), rc |-> 0]

\* lines 869-887: the waiting client is answered.  When cnvrt_qmove purged
\* the reservation, lines 874-887 read and write the freed reservation.
client_reply(c, env) ==
    IF c.done THEN c
    ELSE
    LET r == c.r
        res == IF c.s.resv[r].convert THEN cnvrt_qmove(c.s, r, env)
               ELSE [s |-> c.s, rc |-> 0]
        text == IF res.rc # 0 THEN "reply_FAILED" ELSE "reply_CONFIRMED"
        freed == res.s.resv[r].purged
        s1 == IF ~c.s.resv[r].ri_brp THEN c.s
              ELSE IF ~freed THEN reply_text(res.s, r, text)
              ELSE LET a == Ev(res.s, "read_freed", "ri_brp")
                       b == IF env.stale THEN reply_text(a, r, text) ELSE a
                   IN Ev(b, "write_freed", "ri_brp")
        s2 == Ev(s1, "svr_mailownerResv", r)
        s3 == IF s2.resv[r].purged THEN Ev(s2, "write_freed", "interactive")
              ELSE [s2 EXCEPT !.resv[r].interactive = FALSE]
    IN [c EXCEPT !.s = s3]

\* the alteration completed with the queue stopped and the charge kept
alter_done_keeps_charge(c) ==
    IF c.done \/ c.iba = {} THEN c
    ELSE IF c.s.resv[c.r].purged THEN [c EXCEPT !.s = Ev(c.s, "write_freed", "ra_flags")]
    ELSE IF /\ c.s.resv[c.r].ri_state = RESV_CONFIRMED
            /\ c.s.resv[c.r].ra_state = RESV_RUNNING
    THEN [c EXCEPT !.s = [change_enableORstart(c.s, c.r, FALSE) EXCEPT
                              !.resv[c.r].ra_flags = {}]]
    ELSE [c EXCEPT !.s.resv[c.r].ra_flags = {}]

\* lines 889-918: the alteration is complete
alter_done(c) ==
    IF c.done \/ c.iba = {} THEN c
    ELSE IF c.s.resv[c.r].purged THEN [c EXCEPT !.s = Ev(c.s, "write_freed", "ra_flags")]
    ELSE
    LET r == c.r
        s1 == IF /\ c.s.resv[r].ri_state = RESV_CONFIRMED
                 /\ c.s.resv[r].ra_state = RESV_RUNNING
              THEN uncharge(change_enableORstart(c.s, r, FALSE), r)
              ELSE c.s
    IN [c EXCEPT !.s = [s1 EXCEPT !.resv[r].ra_flags = {}]]

\* lines 920-964: the accounting record of a confirmation
audit(c, env) ==
    IF c.done \/ c.is_degraded THEN c
    ELSE IF env.fault = "malloc_tmp_buf"
         THEN reply_ack([c EXCEPT !.s = Ev(c.s, "log_err", PBSE_SYSTEM)])
    ELSE [c EXCEPT !.s = Ev(Ev(c.s, "process_hooks", c.r), "account_recordResv", c.r)]

\* lines 966-972: the overlapping reservations of a maintenance
\* reservation are degraded and the request acknowledged
finish(c, env) ==
    IF c.done THEN c
    ELSE IF c.s.resv[c.r].purged
         THEN reply_ack([c EXCEPT !.s = Ev(c.s, "read_freed", "ri_resvID")])
    ELSE IF c.r[1] = PBS_MNTNC_RESV_ID_CHAR
         THEN LET s1 == degrade_overlapping_resv(
                            Ev(c.s, "degrade_overlapping_resv", c.r), c.r, env.fail)
              IN IF s1.hang THEN [c EXCEPT !.s = s1, !.dpre = <<c.s>>]
                 ELSE reply_ack([c EXCEPT !.s = s1, !.dpre = <<c.s>>])
         ELSE reply_ack(c)

\* lines 536-540: the locals read from the reservation, the reply counted
enter(s, preq) ==
    [s |-> [s EXCEPT !.resv[preq.rq_jid].rep_sched_count = @ + 1],
     r |-> preq.rq_jid, done |-> FALSE, dpre |-> <<>>,
     ext |-> preq.rq_extend, resch |-> preq.rq_resch, destin |-> preq.rq_destin,
     is_degraded |-> s.resv[preq.rq_jid].ri_substate \in {RESV_DEGRADED, RESV_IN_CONFLICT},
     iba |-> s.resv[preq.rq_jid].ra_flags,
     is_confirmed |-> s.resv[preq.rq_jid].ri_substate = RESV_CONFIRMED,
     next_execvnode |-> <<>>]

\* lines 543-546: a request without extension is not from the scheduler
from_scheduler(c) ==
    IF c.ext.kind = "NULL" THEN req_reject(c, PBSE_resvFail) ELSE c

\* what the request leaves behind
leave(c) == [s |-> c.s, dpre |-> c.dpre]

\* lines 536-972: the request for the reservation that was found
confirm(s, preq, env) ==
    leave(finish(audit(alter_done(client_reply(new_state(start_task(
        assign(release_degraded(decode(new_start(deny(
            from_scheduler(enter(s, preq)), env)), env), env), env),
        env), env), env)), env), env))

req_confirmresv_counts_first(s, preq, env) ==
    IF ~find_resv(s, preq.rq_jid)
    THEN [s |-> Ev(s, "req_reject", PBSE_UNKRESVID), dpre |-> <<>>]
    ELSE IF ~preq.rq_perm
         THEN [s |-> Ev(enter(s, preq).s, "req_reject", PBSE_PERM), dpre |-> <<>>]
    ELSE confirm(s, preq, env)

\* req_confirmresv(preq), lines 507-973
req_confirmresv(s, preq, env) ==
    IF ~preq.rq_perm THEN [s |-> Ev(s, "req_reject", PBSE_PERM), dpre |-> <<>>]
    ELSE IF ~find_resv(s, preq.rq_jid)
         THEN [s |-> Ev(s, "req_reject", PBSE_UNKRESVID), dpre |-> <<>>]
    ELSE confirm(s, preq, env)

(***************************************************************************)
(* The idle-delete timer of a reservation.  ri_qp is the reservation's      *)
(* queue with its job counts, idle_task the pending work tasks whose         *)
(* function is resv_idle_delete and whose wt_parm1 is the reservation (the   *)
(* fire time of each), history what svr_chk_history_conf() answers.          *)
(***************************************************************************)
JOB_STATE_MOVED == "JOB_STATE_MOVED"
JOB_STATE_FINISHED == "JOB_STATE_FINISHED"
JOB_STATE_EXPIRED == "JOB_STATE_EXPIRED"
JOB_STATE_QUEUED == "JOB_STATE_QUEUED"
JobStates == {JOB_STATE_QUEUED, JOB_STATE_MOVED, JOB_STATE_FINISHED, JOB_STATE_EXPIRED}

\* the reservation pointer that is NULL
NULL == <<>>

num_jobs_all(que, history) == que.qu_numjobs

\* lines 114-118 and 148-152: the jobs of the queue that count
num_jobs(que, history) ==
    IF history
    THEN que.qu_numjobs - (que.qu_njstate[JOB_STATE_MOVED]
                           + que.qu_njstate[JOB_STATE_FINISHED]
                           + que.qu_njstate[JOB_STATE_EXPIRED])
    ELSE que.qu_numjobs

\* gen_future_deleteResv(presv, delay): the reservation is to be deleted
\* delay seconds from now
gen_future_deleteResv(s, r, delay) ==
    Ev([s EXCEPT !.resv[r].future_delete = @ \cup {s.time_now + delay}],
       "gen_future_deleteResv", r)

\* resv_idle_delete(ptask), lines 105-128
resv_idle_delete(s, ptask, history) ==
    IF ptask.wt_parm1 = NULL THEN s
    ELSE IF num_jobs(s.resv[ptask.wt_parm1].ri_qp, history) = 0
         THEN gen_future_deleteResv(s, ptask.wt_parm1, 1)
         ELSE s

\* delete_task_by_parm1_func(presv, resv_idle_delete, DELETE_ONE): the first
\* task found is deleted
delete_task_by_parm1_func(s, r) ==
    IF s.resv[r].idle_task = <<>> THEN s
    ELSE Ev([s EXCEPT !.resv[r].idle_task = Tail(@)], "delete_task", r)

\* set_task(WORK_Timed, retry_time, resv_idle_delete, presv) and the link
\* to presv->ri_svrtask
set_task(s, r, retry_time) ==
    Ev([s EXCEPT !.resv[r].idle_task = Append(@, retry_time)], "set_task", r)

\* lines 157-160: the task is set when it fires before the reservation ends
set_task_before_end(s, r, retry_time) ==
    IF retry_time < s.resv[r].ri_etime THEN set_task(s, r, retry_time) ELSE s

set_idle_delete_task_keeps(s, r, history) ==
    IF r = NULL THEN s
    ELSE IF ~s.resv[r].del_idle_time.set THEN s
    ELSE IF num_jobs(s.resv[r].ri_qp, history) = 0 /\ s.resv[r].ri_state = RESV_RUNNING
         THEN set_task_before_end(s, r, s.time_now + s.resv[r].del_idle_time.val)
         ELSE s

\* set_idle_delete_task(presv), lines 135-162
set_idle_delete_task(s, r, history) ==
    IF r = NULL THEN s
    ELSE IF ~s.resv[r].del_idle_time.set THEN s
    ELSE IF num_jobs(s.resv[r].ri_qp, history) = 0 /\ s.resv[r].ri_state = RESV_RUNNING
         THEN set_task_before_end(delete_task_by_parm1_func(s, r), r,
                                  s.time_now + s.resv[r].del_idle_time.val)
         ELSE s

\* resv_timer_init(), lines 225-235: presv walks svr_allresvs
RECURSIVE resv_timer_loop(_, _, _)
resv_timer_loop(s, allresvs, history) ==
    IF allresvs = <<>> THEN s
    ELSE resv_timer_loop(IF s.resv[Head(allresvs)].del_idle_time.set
                         THEN set_idle_delete_task(s, Head(allresvs), history)
                         ELSE s,
                         Tail(allresvs), history)

(***************************************************************************)
(* The state of the server between two requests.                           *)
(***************************************************************************)
VARIABLES resv, nd_resvp, rassn, time_now, pc, nreq, last

vars == <<resv, nd_resvp, rassn, time_now, pc, nreq, last>>

Now0 == MaxTime - 2

\* a reservation as req_resvSub leaves it: unconfirmed, no node
NewResv(start, dur) ==
    [ri_state |-> RESV_UNCONFIRMED, ri_substate |-> RESV_UNCONFIRMED,
     ri_stime |-> start, ri_etime |-> start + dur, ri_duration |-> dur,
     ri_giveback |-> 0, ra_flags |-> {}, ra_state |-> RESV_UNCONFIRMED,
     ra_stime |-> start, ra_duration |-> dur, alter_revert |-> FALSE,
     rep_sched_count |-> 0, req_sched_count |-> 1,
     ri_brp |-> FALSE, interactive |-> FALSE, convert |-> FALSE,
     resv_nodes |-> Unset, ri_pbsnode_list |-> <<>>,
     partition |-> "", qpartition |-> "",
     retry |-> {}, time4resv |-> {}, endwindow |-> {},
     qstarted |-> FALSE, ri_vnodes_down |-> 0,
     db |-> [ri_state |-> RESV_UNCONFIRMED, ri_substate |-> RESV_UNCONFIRMED,
             resv_nodes |-> Unset],
     charge |-> 0, replies |-> 0, purged |-> FALSE,
     del_idle_time |-> [set |-> FALSE, val |-> 0],
     ri_qp |-> [qu_numjobs |-> 0, qu_njstate |-> [st \in JobStates |-> 0]],
     idle_task |-> <<>>, future_delete |-> {},
     standing |-> FALSE, resv_count |-> 1, resv_idx |-> 0, resv_execvnodes |-> Unset]

\* a reservation that was confirmed on the nodes pl
Confirmed(start, dur, pl) ==
    [NewResv(start, dur) EXCEPT
        !.ri_state = RESV_CONFIRMED, !.ri_substate = RESV_CONFIRMED,
        !.rep_sched_count = 1,
        !.resv_nodes = JoinChunks(pl), !.ri_pbsnode_list = pl,
        !.partition = DEFAULT_PARTITION, !.qpartition = DEFAULT_PARTITION,
        !.time4resv = {start}, !.endwindow = {start + dur},
        !.db = [ri_state |-> RESV_CONFIRMED, ri_substate |-> RESV_CONFIRMED,
                resv_nodes |-> JoinChunks(pl)]]

\* a confirmed reservation that started: its resources are charged and its
\* queue is started
Running(start, dur, pl) ==
    [Confirmed(start, dur, pl) EXCEPT
        !.ri_state = RESV_RUNNING, !.ri_substate = RESV_RUNNING,
        !.ri_giveback = 1, !.charge = 1, !.qstarted = TRUE, !.time4resv = {}]

\* a reservation one of whose nodes went down
Degraded(base, retry) ==
    [base EXCEPT !.ri_state = IF @ = RESV_RUNNING THEN @ ELSE RESV_DEGRADED,
                 !.ri_substate = RESV_DEGRADED,
                 !.retry = {retry}, !.ri_vnodes_down = 1]

\* a reservation with an alter request in flight: flags are the modified
\* fields, start and dur the values asked for
Altered(base, flags, start, dur) ==
    [base EXCEPT !.ri_state = RESV_BEING_ALTERED,
                 !.ra_flags = flags, !.ra_state = base.ri_state,
                 !.ra_stime = base.ri_stime, !.ra_duration = base.ri_duration,
                 !.ri_stime = start, !.ri_duration = dur, !.ri_etime = start + dur,
                 !.alter_revert = TRUE, !.ri_brp = TRUE, !.interactive = TRUE,
                 !.req_sched_count = base.rep_sched_count + 1]

Waiting(base) == [base EXCEPT !.ri_brp = TRUE, !.interactive = TRUE]

Past == Now0 - 1
Future == MaxTime - 1

NodeLists == {<<"v1">>, <<"v10", "v1", "v2">>, <<"v1", "v10", "v2">>}

InitMaint ==
    {NewResv(Future, 1), Confirmed(Future, 1, <<"v1", "v10">>)}

InitA ==
    {Waiting(NewResv(Future, 2)),
     [Waiting(NewResv(Future, 2)) EXCEPT !.convert = TRUE],
     [Waiting(NewResv(Future, 2)) EXCEPT !.req_sched_count = 2]}
    \cup {Confirmed(Future, 2, pl) : pl \in NodeLists}
    \cup {Running(Past, 2, pl) : pl \in NodeLists}
    \cup {Degraded(Confirmed(Future + 1, 2, <<"v1">>), Future),
          Degraded(Confirmed(Now0, 2, <<"v1">>), Now0 + 1),
          Degraded(Running(Past, 2, <<"v1", "v2">>), Now0 + 1)}
    \cup {Altered(Confirmed(Future, 2, <<"v1">>), {RESV_START_TIME_MODIFIED}, Future + 1, 2),
          Altered(Running(Past, 2, <<"v1">>), {RESV_START_TIME_MODIFIED}, Future, 2),
          Altered(Running(Past, 2, <<"v1">>), {RESV_SELECT_MODIFIED}, Past, 2),
          Altered(Confirmed(Future, 2, <<"v1">>),
                  {RESV_END_TIME_MODIFIED, RESV_ALTER_FORCED}, Future, 3),
          [Altered(Confirmed(Future, 2, <<"v1">>),
                   {RESV_END_TIME_MODIFIED, RESV_ALTER_FORCED}, Future, 3)
              EXCEPT !.req_sched_count = @ + 1],
          Altered(Degraded(Running(Past, 2, <<"v1", "v2">>), Now0 + 1),
                  {RESV_END_TIME_MODIFIED}, Past, 3)}

InitB ==
    {Confirmed(Future + 3, 1, <<"v10">>),
     Running(Past, 3, <<"v2", "v10">>)}

\* the reservations of ResvA that hold several nodes
InitAShared ==
    {Confirmed(Future, 2, pl) : pl \in NodeLists}
    \cup {Running(Past, 2, <<"v10", "v1", "v2">>)}

\* the servers the model starts from: <<maintenance, ResvA, ResvB>>
InitScenes ==
    {<<NewResv(Future, 1), a, Confirmed(Future + 3, 1, <<"v10">>)>> : a \in InitA}
    \cup {<<m, a, b>> : m \in InitMaint \ {NewResv(Future, 1)}, a \in InitAShared,
                         b \in {Confirmed(Future + 3, 1, <<"v10">>)}}
    \cup {<<NewResv(Future, 1), a, b>> : a \in InitAShared,
                         b \in InitB \ {Confirmed(Future + 3, 1, <<"v10">>)}}

\* the resvinfo lists and the assigned counters that go with the
\* reservations' node lists
RECURSIVE LinkAll(_, _, _)
LinkAll(nd, rv, todo) ==
    IF todo = <<>> THEN nd
    ELSE LinkAll(link_nodes(nd, Head(todo), rv[Head(todo)].ri_pbsnode_list), rv, Tail(todo))

RECURSIVE ChargeAll(_, _, _)
ChargeAll(ra, rv, todo) ==
    IF todo = <<>> THEN ra
    ELSE ChargeAll(IF rv[Head(todo)].ri_giveback = 1
                   THEN update_node_rassn(ra, rv[Head(todo)].resv_nodes, INCR) ELSE ra,
                   rv, Tail(todo))

ResvOrder == <<MaintResv, ResvA, ResvB>>

NoLast == [op |-> "none", r |-> <<>>, tr |-> <<>>, pre |-> <<>>, dpre |-> <<>>, arg |-> <<>>]

Init ==
    /\ time_now = Now0
    /\ \E sc \in InitScenes :
          resv = [r \in Resvs |-> IF r = MaintResv THEN sc[1]
                                  ELSE IF r = ResvA THEN sc[2] ELSE sc[3]]
    /\ nd_resvp = LinkAll([n \in Nodes |-> <<>>], resv, ResvOrder)
    /\ rassn = ChargeAll([n \in Nodes |-> 0], resv, ResvOrder)
    /\ pc = "idle"
    /\ nreq = 0
    /\ last = NoLast

Cur == [resv |-> resv, nd_resvp |-> nd_resvp, rassn |-> rassn, time_now |-> time_now,
        tr |-> <<>>, hang |-> FALSE]

Pre == [resv |-> resv, nd_resvp |-> nd_resvp, rassn |-> rassn]

Become(s) ==
    /\ resv' = s.resv
    /\ nd_resvp' = s.nd_resvp
    /\ rassn' = s.rassn
    /\ time_now' = s.time_now
    /\ pc' = IF s.hang THEN "hung" ELSE "done"
    /\ nreq' = nreq + 1

(***************************************************************************)
(* The requests the scheduler sends and what the collaborators answer.     *)
(***************************************************************************)
Env(fault, fail, stale) == [fault |-> fault, fail |-> fail, stale |-> stale]
Req(perm, jid, kind, partition, resch, destin) ==
    [rq_perm |-> perm, rq_jid |-> jid,
     rq_extend |-> [kind |-> kind, partition |-> partition],
     rq_resch |-> resch, rq_destin |-> destin]
Case(preq, env) == [preq |-> preq, env |-> env]

\* the reservations the scheduler's replies are about
Targets == {MaintResv, ResvA}

OneNode == JoinChunks(<<"v1">>)
Destins == {<<>>, OneNode, JoinChunks(<<"v10", "v1", "v2">>)}

\* the calls that can fail while a confirmation of r is handled
ConfirmFaults(r) ==
    {"strdup", "not_viable", "set_nodes", "time4resv", "strdup_partition",
     "strdup_qname", "find_queuebyname", "malloc_tmp_buf"}
    \cup (IF RESV_END_TIME_MODIFIED \in resv[r].ra_flags THEN {"endwindow"} ELSE {})
    \cup (IF resv[r].convert /\ resv[r].ri_brp THEN {"cnvrt_local_move"} ELSE {})

\* the calls of cnvrt_qmove after whose failure the reservation is purged
PurgeFaults(r) ==
    IF resv[r].convert /\ resv[r].ri_brp
    THEN {"cnvrt_EndResvWindow", "cnvrt_find_job", "cnvrt_alloc_br"} ELSE {}

\* the calls that can fail while a forced alteration is turned into a
\* confirmation
ForceFaults(r) ==
    IF RESV_ALTER_FORCED \in resv[r].ra_flags
    THEN {"asprintf", "create_destination", "set_nodes"} ELSE {}

MallocFails(ns) == {{}} \cup {{n} : n \in ns}

\* a denial of r may purge it
MayPurge(r) == resv[r].ra_flags = {} /\ resv[r].ri_substate = RESV_UNCONFIRMED

\* the execvnodes of a standing reservation as the scheduler sends them:
\* the count, '#', and each execvnode followed by the index of its occurrence
RECURSIVE Ranged(_, _)
Ranged(execs, i) ==
    IF execs = <<>> THEN <<>>
    ELSE Head(execs) \o <<"[", <<"0", "1", "2", "3", "4">>[i + 1], "]">>
         \o Ranged(Tail(execs), i + 1)
StandingDestin(n, execs) == <<<<"0", "1", "2", "3", "4">>[n + 1], "#">> \o Ranged(execs, 0)

TwoNodes == JoinChunks(<<"v2", "v10">>)
StandingDestins ==
    {StandingDestin(1, <<OneNode>>), StandingDestin(2, <<OneNode, TwoNodes>>),
     StandingDestin(2, <<TwoNodes, OneNode>>),
     StandingDestin(3, <<OneNode, OneNode, TwoNodes>>),
     StandingDestin(3, <<OneNode, TwoNodes>>)}

\* the calls that can fail while the execvnodes of standing reservation r
\* are decoded
StandingFaults(r) ==
    {"strdup", "strdup_next", "set_nodes"}
    \cup (IF resv[r].ri_substate \in {RESV_DEGRADED, RESV_IN_CONFLICT} THEN {}
          ELSE {"endwindow"})

StandingCases(r) ==
    IF ~resv[r].standing THEN {}
    ELSE {Case(Req(TRUE, r, PBS_RESV_CONFIRM_SUCCESS, "", 0, d), Env("none", {}, TRUE))
            : d \in StandingDestins}
         \cup {Case(Req(TRUE, r, PBS_RESV_CONFIRM_SUCCESS, "", 0,
                        StandingDestin(2, <<OneNode, TwoNodes>>)), Env(f, {}, TRUE))
                 : f \in StandingFaults(r)}

Cases ==
    {Case(Req(FALSE, MaintResv, PBS_RESV_CONFIRM_SUCCESS, "", 0, OneNode), Env("none", {}, TRUE)),
     Case(Req(TRUE, UnknownResvID, PBS_RESV_CONFIRM_SUCCESS, "", 0, OneNode), Env("none", {}, TRUE))}
    \cup UNION {
        {Case(Req(TRUE, r, "NULL", "", 0, OneNode), Env("none", {}, TRUE))}
        \cup {Case(Req(TRUE, r, PBS_RESV_CONFIRM_FAIL, "", 0, OneNode), Env(f, {}, TRUE))
                : f \in {"none"} \cup ForceFaults(r)}
        \cup {Case(Req(TRUE, r, PBS_RESV_CONFIRM_FAIL, "", 0, OneNode), Env("none", {}, FALSE))
                : x \in IF MayPurge(r) THEN {1} ELSE {}}
        \cup {Case(Req(TRUE, r, PBS_RESV_CONFIRM_SUCCESS, "", t, d), Env("none", {}, TRUE))
                : t \in {0, Future}, d \in Destins}
        \cup {Case(Req(TRUE, r, PBS_RESV_CONFIRM_SUCCESS, "p1", 0, OneNode), Env("none", {}, TRUE))}
        \cup {Case(Req(TRUE, r, PBS_RESV_CONFIRM_SUCCESS, "", 0, OneNode), Env(f, {}, TRUE))
                : f \in ConfirmFaults(r)}
        \cup {Case(Req(TRUE, r, PBS_RESV_CONFIRM_SUCCESS, "", Future, OneNode), Env(f, {}, TRUE))
                : f \in {"not_viable", "set_nodes"}}
        \cup {Case(Req(TRUE, r, PBS_RESV_CONFIRM_SUCCESS, "", 0, OneNode), Env(f, {}, st))
                : f \in PurgeFaults(r), st \in BOOLEAN}
        \cup (IF r[1] = PBS_MNTNC_RESV_ID_CHAR
              THEN {Case(Req(TRUE, r, PBS_RESV_CONFIRM_SUCCESS, "", 0, d), Env("none", {n}, TRUE))
                      : n \in Nodes, d \in Destins \ {<<>>}}
              ELSE {})
        \cup StandingCases(r)
        : r \in Targets}

(***************************************************************************)
(* The actions: one request handled, then the dispatcher takes the next.   *)
(***************************************************************************)
\* the request of case c was handled with outcome out
Answered(out, c) ==
    /\ Become(out.s)
    /\ last' = [op |-> "req_confirmresv", r |-> c.preq.rq_jid, tr |-> out.s.tr,
                pre |-> <<Pre>>, dpre |-> out.dpre,
                arg |-> <<c.preq, c.env>>]

ConfirmResv ==
    /\ pc = "idle"
    /\ nreq < MaxReq
    /\ \E c \in Cases : Answered(req_confirmresv(Cur, c.preq, c.env), c)

\* the nodes of r on host h were removed, leaving the server in state s
Removed(s, r, h, fail) ==
    /\ Become(s)
    /\ last' = [op |-> "remove_host_from_resv", r |-> r, tr |-> s.tr,
                pre |-> <<Pre>>, dpre |-> <<>>, arg |-> <<h, fail>>]

RemoveHost ==
    /\ pc = "idle"
    /\ nreq < MaxReq
    /\ \E r \in Resvs, h \in Hosts :
       \E fail \in MallocFails({n \in SeqToSet(resv[r].ri_pbsnode_list) : nd_hostname[n] = h}) :
          /\ ~resv[r].purged
          /\ Removed(remove_host_from_resv(Cur, r, h, fail), r, h, fail)

\* the same call made once more, right after the first
RemovedAgain(s) ==
    /\ resv' = s.resv
    /\ nd_resvp' = s.nd_resvp
    /\ rassn' = s.rassn
    /\ last' = [last EXCEPT !.op = "remove_host_again", !.tr = s.tr, !.pre = <<Pre>>]
    /\ UNCHANGED <<time_now, pc, nreq>>

RemoveHostAgain ==
    /\ pc = "done"
    /\ last.op = "remove_host_from_resv"
    /\ RemovedAgain(remove_host_from_resv(Cur, last.r, last.arg[1], {}))

Dispatch ==
    /\ pc = "done"
    /\ pc' = "idle"
    /\ last' = NoLast
    /\ UNCHANGED <<resv, nd_resvp, rassn, time_now, nreq>>

Next == ConfirmResv \/ RemoveHost \/ RemoveHostAgain \/ Dispatch

Spec == Init /\ [][Next]_vars

(***************************************************************************)
(* The same requests for a server whose reservation ResvA is a standing    *)
(* reservation of count occurrences, the occurrence idx being the next.    *)
(***************************************************************************)
Standing(base, count, idx, execs) ==
    [base EXCEPT !.standing = TRUE, !.resv_count = count, !.resv_idx = idx,
                 !.resv_execvnodes = execs]

StandingInitA ==
    {Standing(Waiting(NewResv(Future, 2)), 2, 0, Unset),
     Standing(Confirmed(Future, 2, <<"v1">>), 3, 2,
              StandingDestin(2, <<OneNode, OneNode>>)),
     Standing(Degraded(Confirmed(Future + 1, 2, <<"v1">>), Future), 3, 2,
              StandingDestin(2, <<OneNode, OneNode>>)),
     Standing(Altered(Confirmed(Future, 2, <<"v1">>), {RESV_START_TIME_MODIFIED},
                      Future + 1, 2), 3, 2,
              StandingDestin(2, <<OneNode, OneNode>>))}

StandingInit ==
    /\ time_now = Now0
    /\ \E a \in StandingInitA :
          resv = [r \in Resvs |->
                    IF r = MaintResv THEN NewResv(Future, 1)
                    ELSE IF r = ResvA THEN a
                    ELSE Confirmed(Future + 3, 1, <<"v10">>)]
    /\ nd_resvp = LinkAll([n \in Nodes |-> <<>>], resv, ResvOrder)
    /\ rassn = ChargeAll([n \in Nodes |-> 0], resv, ResvOrder)
    /\ pc = "idle"
    /\ nreq = 0
    /\ last = NoLast

StandingSpec == StandingInit /\ [][Next]_vars

(***************************************************************************)
(* The idle-delete timers: the server starts with no timer pending, the    *)
(* timers are set at startup and whenever a queue may have become idle,    *)
(* jobs come and go, the clock advances and the timers fire.               *)
(***************************************************************************)
IdleDelete(base, t) == [base EXCEPT !.del_idle_time = [set |-> TRUE, val |-> t]]

IdleInitA ==
    {IdleDelete(b, t) : b \in {Running(Past, 2, <<"v1">>), Running(Past, 3, <<"v1">>),
                               Confirmed(Future, 2, <<"v1">>)},
                        t \in 1..2}
    \cup {Running(Past, 3, <<"v1">>)}

IdleInit ==
    /\ time_now = Now0
    /\ \E a \in IdleInitA :
          resv = [r \in Resvs |->
                    IF r = MaintResv THEN NewResv(Future, 1)
                    ELSE IF r = ResvA THEN a
                    ELSE IdleDelete(Running(Past, 4, <<"v2", "v10">>), 1)]
    /\ nd_resvp = LinkAll([n \in Nodes |-> <<>>], resv, ResvOrder)
    /\ rassn = ChargeAll([n \in Nodes |-> 0], resv, ResvOrder)
    /\ pc = "idle"
    /\ nreq = 0
    /\ last = NoLast

\* the queues a reservation can have: some jobs, each in one state
Queues ==
    {q \in [qu_numjobs : 0..MaxJobs, qu_njstate : [JobStates -> 0..MaxJobs]] :
        q.qu_numjobs = q.qu_njstate[JOB_STATE_QUEUED] + q.qu_njstate[JOB_STATE_MOVED]
                       + q.qu_njstate[JOB_STATE_FINISHED] + q.qu_njstate[JOB_STATE_EXPIRED]}

\* svr_allresvs
AllResvs == SelectSeq(ResvOrder, LAMBDA r : ~resv[r].purged)

\* the call op for reservation r left the server in state s; pre is the
\* state the call found
IdleDone(s, op, r, pre, history) ==
    /\ resv' = s.resv
    /\ last' = [op |-> op, r |-> r, tr |-> s.tr, pre |-> <<pre>>, dpre |-> <<>>,
                arg |-> <<history>>]
    /\ UNCHANGED <<nd_resvp, rassn, time_now, pc, nreq>>

SetIdleDeleteTask ==
    \E r \in Resvs \cup {NULL}, history \in BOOLEAN :
        IdleDone(set_idle_delete_task(Cur, r, history), "set_idle_delete_task", r,
                 Pre, history)

ResvTimerInit ==
    \E history \in BOOLEAN :
        IdleDone(resv_timer_loop(Cur, AllResvs, history), "resv_timer_init", NULL,
                 Pre, history)

\* the work task i of reservation r is due: it is taken off the list and
\* its function called
RemoveAt(seq, i) == SubSeq(seq, 1, i - 1) \o SubSeq(seq, i + 1, Len(seq))
Dispatched(r, i) == [Cur EXCEPT !.resv[r].idle_task = RemoveAt(@, i)]

IdleTaskFires ==
    \E r \in Resvs, history \in BOOLEAN :
    \E i \in 1..Len(resv[r].idle_task) :
        /\ resv[r].idle_task[i] <= time_now
        /\ IdleDone(resv_idle_delete(Dispatched(r, i), [wt_parm1 |-> r], history),
                    "resv_idle_delete", r,
                    [Pre EXCEPT !.resv = Dispatched(r, i).resv], history)

\* a job enters or leaves the queue of reservation ResvA, or changes state
QueueChanges ==
    /\ \E r \in {ResvA}, q \in Queues :
          /\ q # resv[r].ri_qp
          /\ resv' = [resv EXCEPT ![r].ri_qp = q]
    /\ last' = NoLast
    /\ UNCHANGED <<nd_resvp, rassn, time_now, pc, nreq>>

Tick ==
    /\ time_now < MaxTime
    /\ time_now' = time_now + 1
    /\ last' = NoLast
    /\ UNCHANGED <<resv, nd_resvp, rassn, pc, nreq>>

IdleNext == SetIdleDeleteTask \/ ResvTimerInit \/ IdleTaskFires \/ QueueChanges \/ Tick

IdleSpec == IdleInit /\ [][IdleNext]_vars

(***************************************************************************)
(* Properties.  last describes the request just handled: last.pre is the   *)
(* state on entry, last.dpre the state when degrade_overlapping_resv was   *)
(* entered, last.tr the calls made.                                        *)
(***************************************************************************)
InTr(tag, x) == \E i \in 1..Len(last.tr) : last.tr[i] = <<tag, x>>
Confirming == last.op = "req_confirmresv" /\ last.r \in Resvs
Removing == last.op = "remove_host_from_resv"
Scanned == last.dpre # <<>>
EntryOf(r) == last.pre[1].resv[r]

\* C1: a reservation whose giveback flag is set has a node-spec attribute
\* that is set and not empty, after every request and every removal
C1_GivebackNeedsNodes ==
    \A r \in Resvs : ~resv[r].purged /\ resv[r].ri_giveback = 1
                        => is_rattr_set(resv[r].resv_nodes)

\* the calls of set_resc_assigned made for r by the request just handled
ChargeCalls(r) == SelectSeq(last.tr, LAMBDA e : e = <<INCR, r>> \/ e = <<DECR, r>>)

\* C2: set_resc_assigned(INCR) and set_resc_assigned(DECR) alternate for
\* each reservation: INCR is called only with giveback clear and DECR only
\* with giveback set, so giveback is set exactly when one more INCR than
\* DECR was called
C2_ChargeAlternates ==
    \A r \in Resvs :
        /\ resv[r].charge \in {0, 1}
        /\ resv[r].ri_giveback = 1 <=> resv[r].charge = 1
        /\ Confirming =>
              LET calls == ChargeCalls(r)
              IN /\ \A i \in 1..(Len(calls) - 1) : calls[i] # calls[i + 1]
                 /\ calls # <<>> =>
                       (calls[1][1] = INCR <=> EntryOf(r).ri_giveback = 0)

C2_Witness ==
    /\ Confirming
    /\ ChargeCalls(last.r) = <<<<DECR, last.r>>, <<INCR, last.r>>>>
    /\ resv[last.r].ri_giveback = 1

\* C3: the end time of every reservation is its start time plus its
\* duration after every request, whatever the outcome
C3_EndIsStartPlusDuration ==
    \A r \in Resvs : resv[r].ri_etime = resv[r].ri_stime + resv[r].ri_duration

C3_Witness ==
    /\ Confirming
    /\ last.arg[1].rq_resch # 0
    /\ EntryOf(last.r).ri_stime # last.arg[1].rq_resch
    /\ resv[last.r].ri_stime = last.arg[1].rq_resch
    /\ \E code \in {PBSE_BADTSPEC, PBSE_UNKNODE} : InTr("req_reject", code)

\* C4: the waiting client gets a DENIED, CONFIRMED or FAILED text at most
\* once, and once when its reservation ends confirmed or purged; after the
\* text is sent ri_brp is empty; ri_brp is not read after the reservation
\* was purged
C4_ClientAnsweredOnce ==
    /\ \A r \in Resvs : resv[r].replies <= 1
    /\ Confirming =>
          /\ ~InTr("read_freed", "ri_brp")
          /\ resv[last.r].replies > EntryOf(last.r).replies => ~resv[last.r].ri_brp
          /\ ( /\ EntryOf(last.r).ri_brp
               /\ \/ resv[last.r].purged
                  \/ /\ InTr("reply_ack", last.r)
                     /\ resv[last.r].ri_state \in {RESV_CONFIRMED, RESV_RUNNING} )
              => resv[last.r].replies = 1

(***************************************************************************)
(* degrade_overlapping_resv: AtScan is the state on entry, ScanR the       *)
(* maintenance reservation it was called for.                              *)
(***************************************************************************)
AtScan == last.dpre[1]
ScanR == last.r
Returned == Confirming /\ Scanned /\ pc = "done"
Holds(list, r) == \E i \in 1..Len(list) : list[i] = r
Entries(list, r) == Cardinality({i \in 1..Len(list) : list[i] = r})
Overlap(a, b) == a.ri_stime <= b.ri_etime /\ a.ri_etime >= b.ri_stime

\* r2 is in the list of a node that ScanR holds
SharesNode(D, r2) ==
    \E n \in SeqToSet(D.resv[ScanR].ri_pbsnode_list) : Holds(D.nd_resvp[n], r2)

Conflicting(D, r2) ==
    /\ r2[1] # PBS_MNTNC_RESV_ID_CHAR
    /\ D.resv[r2].ri_state # RESV_UNCONFIRMED
    /\ r2 # ScanR
    /\ Overlap(D.resv[ScanR], D.resv[r2])

\* C5: when degrade_overlapping_resv(R) returns, every conflicting
\* reservation R2 found in the list of a node N of R has substate
\* IN_CONFLICT, state DEGRADED if it was CONFIRMED and its state otherwise,
\* is in no list of a node of N's host and has no such node in its own
\* list, has its retry timer at now and was saved
C5_ConflictingDegraded ==
    Returned =>
      \A n \in SeqToSet(AtScan.resv[ScanR].ri_pbsnode_list) :
        \A r2 \in Resvs :
          Holds(AtScan.nd_resvp[n], r2) /\ Conflicting(AtScan, r2) =>
            /\ resv[r2].ri_substate = RESV_IN_CONFLICT
            /\ resv[r2].ri_state =
                  IF AtScan.resv[r2].ri_state = RESV_CONFIRMED
                  THEN RESV_DEGRADED ELSE AtScan.resv[r2].ri_state
            /\ \A m \in Nodes : nd_hostname[m] = nd_hostname[n] =>
                  /\ ~Holds(nd_resvp[m], r2)
                  /\ ~Holds(resv[r2].ri_pbsnode_list, m)
            /\ resv[r2].retry = {time_now}
            /\ resv[r2].db = [ri_state |-> resv[r2].ri_state,
                              ri_substate |-> resv[r2].ri_substate,
                              resv_nodes |-> resv[r2].resv_nodes]

\* C6: degrade_overlapping_resv(R) leaves R, the maintenance reservations,
\* the UNCONFIRMED reservations, the reservations that do not overlap R
\* and those that share no node with R as they were: state, substate,
\* nodes, entries in the nodes' lists and retry timer
C6_OthersUntouched ==
    Confirming /\ Scanned =>
      \A r2 \in Resvs :
        ~(SharesNode(AtScan, r2) /\ Conflicting(AtScan, r2)) =>
          /\ resv[r2].ri_state = AtScan.resv[r2].ri_state
          /\ resv[r2].ri_substate = AtScan.resv[r2].ri_substate
          /\ resv[r2].resv_nodes = AtScan.resv[r2].resv_nodes
          /\ resv[r2].ri_pbsnode_list = AtScan.resv[r2].ri_pbsnode_list
          /\ resv[r2].retry = AtScan.resv[r2].retry
          /\ \A n \in Nodes :
                Entries(nd_resvp[n], r2) = Entries(AtScan.nd_resvp[n], r2)

\* a reservation that shares a node with R but does not overlap it was left
\* alone while another one was evicted
C6_Witness ==
    /\ Returned
    /\ \E r2 \in Resvs \ {ScanR} :
          /\ r2[1] # PBS_MNTNC_RESV_ID_CHAR
          /\ AtScan.resv[r2].ri_state # RESV_UNCONFIRMED
          /\ SharesNode(AtScan, r2)
          /\ ~Overlap(AtScan.resv[ScanR], AtScan.resv[r2])
    /\ \E r3 \in Resvs : resv[r3].ri_substate = RESV_IN_CONFLICT
                          /\ AtScan.resv[r3].ri_substate # RESV_IN_CONFLICT

\* C7: degrade_overlapping_resv always returns
C7_DegradeTerminates == pc # "hung"

(***************************************************************************)
(* remove_host_from_resv, called on its own or by the eviction of the      *)
(* scanner: Before(r) is the reservation when the call was made.           *)
(***************************************************************************)
HostRemoved(r) ==
    \/ Removing /\ r = last.r
    \/ Confirming /\ Scanned /\ r # ScanR /\ SharesNode(AtScan, r) /\ Conflicting(AtScan, r)
Before(r) == IF Removing THEN last.pre[1].resv[r] ELSE AtScan.resv[r]
LastChunkRemoved(r) ==
    /\ HostRemoved(r)
    /\ is_rattr_set(Before(r).resv_nodes)
    /\ ~is_rattr_set(resv[r].resv_nodes)

\* C8 as stated: when the last chunk is removed the attribute is cleared
\* and the queue of the reservation is started
C8_QueueForceEnabled ==
    \A r \in Resvs : LastChunkRemoved(r) => resv[r].qstarted

\* C8 amended: when the last chunk is removed the attribute is cleared and
\* the queue of the reservation is stopped
C8_QueueStopped ==
    \A r \in Resvs : LastChunkRemoved(r) => ~resv[r].qstarted

C8_Witness ==
    \E r \in Resvs : LastChunkRemoved(r) /\ Before(r).qstarted /\ ~resv[r].qstarted

\* the chunks of a node-spec string, split at the closing parentheses
RECURSIVE Chunks(_)
Chunks(str) ==
    LET open == strchr(str, 1, "(")
        close == IF open = 0 THEN 0 ELSE strchr(str, open, ")")
    IN IF open = 0 \/ close = 0 THEN <<>>
       ELSE <<SubSeq(str, open, close)>> \o Chunks(SubSeq(str, close + 1, Len(str)))

RECURSIVE JoinPlus(_)
JoinPlus(cs) ==
    IF cs = <<>> THEN <<>>
    ELSE IF Len(cs) = 1 THEN cs[1]
    ELSE cs[1] \o <<"+">> \o JoinPlus(Tail(cs))

WellFormed(str) == str # <<>> /\ str = JoinPlus(Chunks(str))

RECURSIVE IsSubSeq(_, _)
IsSubSeq(a, b) ==
    IF a = <<>> THEN TRUE
    ELSE IF b = <<>> THEN FALSE
    ELSE IF Head(a) = Head(b) THEN IsSubSeq(Tail(a), Tail(b))
    ELSE IsSubSeq(a, Tail(b))

\* C9: after remove_host_from_resv the node-spec is unset or a '+'-joined
\* list, without leading, trailing or double '+', of chunks of the
\* original in their original order
C9_ResultWellFormed ==
    \A r \in Resvs :
        HostRemoved(r) /\ is_rattr_set(Before(r).resv_nodes) =>
            \/ ~is_rattr_set(resv[r].resv_nodes)
            \/ /\ WellFormed(resv[r].resv_nodes)
               /\ IsSubSeq(Chunks(resv[r].resv_nodes), Chunks(Before(r).resv_nodes))

\* a middle chunk was removed from a list of three
C9_Witness ==
    \E r \in Resvs :
        /\ HostRemoved(r)
        /\ Len(Chunks(Before(r).resv_nodes)) = 3
        /\ Chunks(resv[r].resv_nodes) =
              <<Chunks(Before(r).resv_nodes)[1], Chunks(Before(r).resv_nodes)[3]>>

\* the names of a node-spec without those of the nodes in gone
RECURSIVE Without(_, _)
Without(names, gone) ==
    IF names = <<>> THEN <<>>
    ELSE IF \E n \in gone : nd_name[n] = Head(names) THEN Without(Tail(names), gone)
    ELSE <<Head(names)>> \o Without(Tail(names), gone)

\* C10: remove_host_from_resv(R, host) takes from R's node-spec the chunks
\* of the nodes of that host that R holds and no other chunk, takes R from
\* the lists of those nodes, and with giveback set takes the resources of
\* those chunks from the nodes' counters (no allocation failing)
C10_ExactlyTheHostsChunks ==
    Removing /\ last.arg[2] = {} =>
      LET r == last.r
          P == last.pre[1]
          gone == {n \in SeqToSet(P.resv[r].ri_pbsnode_list) : nd_hostname[n] = last.arg[1]}
          before == P.resv[r].resv_nodes
      IN /\ ChunkNames(resv[r].resv_nodes) = Without(ChunkNames(before), gone)
         /\ \A n \in gone : ~Holds(nd_resvp[n], r)
         /\ \A n \in Nodes :
               rassn[n] = P.rassn[n] -
                 (IF n \in gone /\ P.resv[r].ri_giveback = 1
                  THEN CountName(before, n) ELSE 0)

\* what remove_host_from_resv can change
Ledger(s) == [resv |-> s.resv, nd_resvp |-> s.nd_resvp, rassn |-> s.rassn]
HostAbsent(s, r, h) ==
    \A n \in SeqToSet(s.resv[r].ri_pbsnode_list) : nd_hostname[n] # h

\* C11: remove_host_from_resv for a host none of whose nodes is in the
\* reservation's node list changes nothing, the first time and the second:
\* node list, node-spec, the nodes' lists, giveback, counters and queue
C11_AbsentHostNoOp ==
    /\ Removing /\ HostAbsent(last.pre[1], last.r, last.arg[1]) => Cur = [Cur EXCEPT
            !.resv = last.pre[1].resv, !.nd_resvp = last.pre[1].nd_resvp,
            !.rassn = last.pre[1].rassn]
    /\ last.op = "remove_host_again" =>
          /\ HostAbsent(last.pre[1], last.r, last.arg[1])
          /\ Ledger(Cur) = last.pre[1]
          /\ last.tr = <<>>

\* the second call came after a first one that removed nodes and left a
\* chunk of a node of the host in the node-spec
C11_Witness ==
    /\ last.op = "remove_host_again"
    /\ \E n \in Nodes : /\ nd_hostname[n] = last.arg[1]
                         /\ CountName(resv[last.r].resv_nodes, n) > 0
    /\ Len(resv[last.r].ri_pbsnode_list) > 0

(***************************************************************************)
(* req_confirmresv: the reply to the scheduler and the node set.           *)
(***************************************************************************)
Count(tag) == Cardinality({i \in 1..Len(last.tr) : last.tr[i][1] = tag})
Rejected == Count("req_reject") > 0
RejectedResolved ==
    /\ Confirming /\ Rejected
    /\ ~InTr("req_reject", PBSE_PERM) /\ ~InTr("req_reject", PBSE_UNKRESVID)

\* the node set of reservation r in state s: the node-spec attribute, the
\* node list and r's entries in the nodes' lists
NodeSet(s, r) ==
    [resv_nodes |-> s.resv[r].resv_nodes,
     ri_pbsnode_list |-> s.resv[r].ri_pbsnode_list,
     entries |-> [n \in Nodes |-> Entries(s.nd_resvp[n], r)]]

\* C12: when req_confirmresv rejects the request after it resolved the
\* reservation, the reservation's node set and its giveback flag are what
\* they were on entry
C12_RejectKeepsNodes ==
    RejectedResolved =>
        /\ NodeSet(Cur, last.r) = NodeSet(last.pre[1], last.r)
        /\ resv[last.r].ri_giveback = EntryOf(last.r).ri_giveback


\* positions in the trace of the request just handled
At(tag) == {i \in 1..Len(last.tr) : last.tr[i][1] = tag}
AssignAt == At("set_nodes") \cup At("set_nodes_failed")
HeldOnEntry(r) ==
    \/ Len(EntryOf(r).ri_pbsnode_list) > 0
    \/ is_rattr_set(EntryOf(r).resv_nodes)
    \/ \E n \in Nodes : Holds(last.pre[1].nd_resvp[n], r)

\* C13: in a call of req_confirmresv that reaches assign_resv_resc for a
\* reservation holding a node set on entry, free_resvNodes released that
\* node set before assign_resv_resc placed the new one, whatever the entry
\* state: degraded, being altered, or confirmed and neither
C13_ReleasedBeforeAssign ==
    Confirming /\ HeldOnEntry(last.r) =>
        \A j \in AssignAt : \E i \in At("free_resvNodes") : i < j


\* the request just handled was a confirmation for a new reservation:
\* unconfirmed, not being altered, not degraded, no collaborator failing,
\* a placement that names nodes, and a start time still ahead
NewConfirmed ==
    /\ Confirming /\ ~EntryOf(last.r).purged
    /\ EntryOf(last.r).ri_state = RESV_UNCONFIRMED
    /\ EntryOf(last.r).ri_substate = RESV_UNCONFIRMED
    /\ EntryOf(last.r).ra_flags = {}
    /\ last.arg[1].rq_perm
    /\ last.arg[1].rq_extend.kind = PBS_RESV_CONFIRM_SUCCESS
    /\ last.arg[2].fault = "none" /\ last.arg[2].fail = {}
    /\ last.arg[1].rq_destin # <<>>
    /\ (IF last.arg[1].rq_resch # 0 THEN last.arg[1].rq_resch
        ELSE EntryOf(last.r).ri_stime) > time_now

\* C14: a confirmation for a new unconfirmed reservation whose start is
\* ahead leaves it CONFIRMED with the canonical node-spec of the placement,
\* one start-time task armed at its start, saved, the waiting client told
\* CONFIRMED and the scheduler's request acknowledged
C14_NewResvConfirmed ==
    NewConfirmed =>
        /\ resv[last.r].ri_state = RESV_CONFIRMED
        /\ resv[last.r].ri_substate = RESV_CONFIRMED
        /\ resv[last.r].resv_nodes =
               JoinChunks(NodesOfNames(ChunkNames(last.arg[1].rq_destin)))
        /\ resv[last.r].time4resv = {resv[last.r].ri_stime}
        /\ Count("gen_task_Time4resv") = 1
        /\ InTr("resv_save_db", last.r)
        /\ resv[last.r].db = [ri_state |-> RESV_CONFIRMED, ri_substate |-> RESV_CONFIRMED,
                              resv_nodes |-> resv[last.r].resv_nodes]
        /\ EntryOf(last.r).ri_brp =>
              /\ InTr("reply_CONFIRMED", last.r)
              /\ resv[last.r].replies = EntryOf(last.r).replies + 1
        /\ InTr("reply_ack", last.r)
        /\ ~Rejected


\* the server as the request just handled found it
AtEntry ==
    [Cur EXCEPT !.resv = last.pre[1].resv, !.nd_resvp = last.pre[1].nd_resvp,
                !.rassn = last.pre[1].rassn]

\* the request just handled was a denial for a degraded reservation that
\* is not being altered
DegradedDenied ==
    /\ Confirming /\ ~EntryOf(last.r).purged
    /\ last.arg[1].rq_perm
    /\ last.arg[1].rq_extend.kind = PBS_RESV_CONFIRM_FAIL
    /\ EntryOf(last.r).ri_substate \in {RESV_DEGRADED, RESV_IN_CONFLICT}
    /\ EntryOf(last.r).ra_flags = {}

\* C15: a denial for a degraded or in-conflict reservation that is not
\* being altered arms the retry timer at the time determine_resv_retry
\* gives, acknowledges the request and changes nothing else but the count
\* of replies, whatever the counts are: no purge, no reply to a client
C15_DegradedDenialRetries ==
    DegradedDenied =>
        /\ resv[last.r].retry = {determine_resv_retry(AtEntry, last.r)}
        /\ last.tr = <<<<"reply_ack", last.r>>>>
        /\ Ledger(Cur) = [Ledger(last.pre[1]) EXCEPT
               !.resv[last.r].retry = resv[last.r].retry,
               !.resv[last.r].rep_sched_count = @ + 1]

C15_Witness ==
    /\ DegradedDenied
    /\ EntryOf(last.r).rep_sched_count + 1 >= EntryOf(last.r).req_sched_count
    /\ resv[last.r].retry # EntryOf(last.r).retry
    /\ EntryOf(last.r).ri_stime > time_now + 1


(***************************************************************************)
(* The idle-delete timers.                                                 *)
(***************************************************************************)
\* the jobs of queue que that are in no terminal state, terminal jobs being
\* kept in the queue only when the job history is kept
NonTerminal(que, history) ==
    que.qu_numjobs -
        (IF history
         THEN que.qu_njstate[JOB_STATE_MOVED] + que.qu_njstate[JOB_STATE_FINISHED]
              + que.qu_njstate[JOB_STATE_EXPIRED]
         ELSE 0)
IdleFired == last.op = "resv_idle_delete"

\* C16: when the idle-delete timer of a reservation fires, the deletion of
\* the reservation is requested exactly when its queue holds no
\* non-terminal job; with such a job nothing is requested and the
\* reservation is as the timer found it
C16_IdlePurgeIffNoJobs ==
    IdleFired =>
        /\ InTr("gen_future_deleteResv", last.r)
              <=> NonTerminal(EntryOf(last.r).ri_qp, last.arg[1]) = 0
        /\ InTr("gen_future_deleteResv", last.r)
              <=> resv[last.r].future_delete # EntryOf(last.r).future_delete
        /\ NonTerminal(EntryOf(last.r).ri_qp, last.arg[1]) > 0
              => resv = last.pre[1].resv /\ last.tr = <<>>

\* a timer fired for a queue whose only job is finished and kept as history
C16_Witness ==
    /\ IdleFired
    /\ last.arg[1]
    /\ EntryOf(last.r).ri_qp.qu_numjobs > 0
    /\ InTr("gen_future_deleteResv", last.r)

Arming == last.op \in {"set_idle_delete_task", "resv_timer_init"}

\* C17: whatever calls of set_idle_delete_task and resv_timer_init were
\* made, a reservation has at most one idle-delete timer pending, the timer
\* fires before the reservation ends and its reservation has an idle-delete
\* timeout; a timer is set only for a RUNNING reservation with such a
\* timeout and no non-terminal job, after the one pending was deleted
C17_OneIdleTimer ==
    /\ \A r \in Resvs :
          /\ Len(resv[r].idle_task) <= 1
          /\ \A i \in 1..Len(resv[r].idle_task) :
                /\ resv[r].idle_task[i] < resv[r].ri_etime
                /\ resv[r].del_idle_time.set
    /\ Arming =>
          \A r \in Resvs : InTr("set_task", r) =>
              /\ EntryOf(r).del_idle_time.set
              /\ EntryOf(r).ri_state = RESV_RUNNING
              /\ NonTerminal(EntryOf(r).ri_qp, last.arg[1]) = 0
              /\ EntryOf(r).idle_task # <<>> => InTr("delete_task", r)
              /\ resv[r].idle_task = <<time_now + EntryOf(r).del_idle_time.val>>

\* a timer was replaced by a later one
C17_Witness ==
    /\ Arming
    /\ \E r \in Resvs :
          /\ InTr("set_task", r) /\ InTr("delete_task", r)
          /\ resv[r].idle_task # EntryOf(r).idle_task


\* C18: every call of req_confirmresv answers the scheduler's request
\* exactly once, by req_reject or by reply_ack; an error it detected is
\* answered by a rejection, and a failed placement by a rejection with the
\* code the placement gave
C18_OneReplyToScheduler ==
    last.op = "req_confirmresv" =>
        /\ Count("req_reject") + Count("reply_ack") = 1
        /\ Count("log_err") > 0 => Rejected
        /\ InTr("set_nodes_failed", last.r) => InTr("req_reject", PBSE_UNKNODE)


\* the request just handled was turned away before a reservation was found
TurnedAway ==
    /\ last.op = "req_confirmresv"
    /\ \/ ~last.arg[1].rq_perm
       \/ last.arg[1].rq_jid \notin Resvs
       \/ last.pre[1].resv[last.arg[1].rq_jid].purged

\* C19: a request without manager or operator privilege is rejected with
\* PBSE_PERM and a request for an unknown reservation with PBSE_UNKRESVID,
\* and neither changes a reservation, a node's list, a timer or a counter,
\* the count of replies included, nor sends a reply to a client
C19_TurnedAwayUntouched ==
    TurnedAway =>
        /\ last.tr = <<<<"req_reject",
                        IF ~last.arg[1].rq_perm THEN PBSE_PERM ELSE PBSE_UNKRESVID>>>>
        /\ Ledger(Cur) = last.pre[1]

\* a request without privilege for a reservation that exists and waits for
\* replies
C19_Witness ==
    /\ TurnedAway
    /\ ~last.arg[1].rq_perm
    /\ last.arg[1].rq_jid \in Resvs
    /\ ~resv[last.arg[1].rq_jid].purged
    /\ resv[last.arg[1].rq_jid].rep_sched_count < resv[last.arg[1].rq_jid].req_sched_count


\* the request just handled was a denial for a reservation that is not
\* both degraded and free of alteration
Denied ==
    /\ Confirming /\ ~EntryOf(last.r).purged
    /\ last.arg[1].rq_perm
    /\ last.arg[1].rq_extend.kind = PBS_RESV_CONFIRM_FAIL
    /\ ~DegradedDenied
Quota == EntryOf(last.r).rep_sched_count + 1 >= EntryOf(last.r).req_sched_count
ClientReplies == Count("reply_DENIED") + Count("reply_CONFIRMED") + Count("reply_FAILED")

\* C20: on a denial for a reservation that is not both degraded and free
\* of alteration, the client is told DENIED and the reservation is purged
\* only when, this reply counted, as many replies came as requests were
\* sent, and the purge only for a reservation that on entry was neither
\* confirmed nor being altered; while replies are outstanding the
\* reservation stays and the client is told nothing
C20_DenialWaitsForAllReplies ==
    Denied =>
        /\ InTr("reply_DENIED", last.r) => Quota
        /\ InTr("resv_purge", last.r) =>
              /\ Quota
              /\ EntryOf(last.r).ri_substate # RESV_CONFIRMED
              /\ EntryOf(last.r).ra_flags = {}
        /\ ~Quota =>
              /\ ~resv[last.r].purged
              /\ ClientReplies = 0
              /\ resv[last.r].replies = EntryOf(last.r).replies
              /\ resv[last.r].ri_brp = EntryOf(last.r).ri_brp
              /\ resv[last.r].rep_sched_count = EntryOf(last.r).rep_sched_count + 1

\* a first denial left the client waiting, the second told it DENIED and
\* purged the reservation
C20_Witness ==
    /\ Denied /\ Quota
    /\ EntryOf(last.r).rep_sched_count > 0
    /\ EntryOf(last.r).ri_brp
    /\ InTr("reply_DENIED", last.r)
    /\ resv[last.r].purged


\* the request just handled was a denial for a reservation being altered
AlterDenied ==
    /\ Confirming /\ ~EntryOf(last.r).purged
    /\ last.arg[1].rq_perm
    /\ last.arg[1].rq_extend.kind = PBS_RESV_CONFIRM_FAIL
    /\ EntryOf(last.r).ri_state = RESV_BEING_ALTERED
Forced == RESV_ALTER_FORCED \in EntryOf(last.r).ra_flags
NoFault == last.arg[2].fault = "none" /\ last.arg[2].fail = {}

CountMismatch ==
    /\ Confirming /\ ~EntryOf(last.r).purged
    /\ last.arg[1].rq_perm
    /\ last.arg[1].rq_extend.kind = PBS_RESV_CONFIRM_SUCCESS
    /\ EntryOf(last.r).standing
    /\ EntryOf(last.r).ra_flags = {}
    /\ NoFault
    /\ get_execvnodes_count(last.arg[1].rq_destin) > 0
    /\ unroll_execvnode_seq(last.arg[1].rq_destin) # <<>>
    /\ get_execvnodes_count(last.arg[1].rq_destin)
          # EntryOf(last.r).resv_count - EntryOf(last.r).resv_idx + 1

\* C22: a confirmation for a standing reservation not being altered whose
\* number of execvnodes differs from the occurrences left (count - index
\* + 1) is rejected without a call of assign_resv_resc, without releasing
\* a node, and with the execvnodes sequence and the occurrence index as
\* they were on entry
C22_CountMismatchRejected ==
    CountMismatch =>
        /\ Rejected
        /\ AssignAt = {}
        /\ ~InTr("free_resvNodes", last.r)
        /\ NodeSet(Cur, last.r) = NodeSet(last.pre[1], last.r)
        /\ resv[last.r].resv_execvnodes = EntryOf(last.r).resv_execvnodes
        /\ resv[last.r].resv_idx = EntryOf(last.r).resv_idx


(***************************************************************************)
(* The charge after the assignment                                         *)
(***************************************************************************)
Assigned == Confirming /\ InTr("set_nodes", last.r)

WasDegraded == EntryOf(last.r).ri_substate \in {RESV_DEGRADED, RESV_IN_CONFLICT}

SelectAltered == RESV_SELECT_MODIFIED \in EntryOf(last.r).ra_flags

\* the reservation has started: its start time is at or before now
Started == resv[last.r].ri_stime <= time_now

ChargeDue == Started /\ (WasDegraded \/ SelectAltered)

\* the counters were incremented for the reservation after its nodes were
\* assigned
ChargedAfterAssign ==
    \E i \in At("set_nodes"), j \in At(INCR) : i < j /\ last.tr[j] = <<INCR, last.r>>

\* the charge held on entry was never released during the call
KeptCharge == EntryOf(last.r).ri_giveback = 1 /\ At(DECR) = {}

\* C23: after req_confirmresv assigned the nodes, the resources are
\* charged (counters incremented, giveback true) exactly when the start
\* time is at or before now, start = now included, and the call reconfirms
\* a degraded reservation or alters the node selection
C23_ChargedWhenStarted ==
    Assigned /\ ~resv[last.r].purged =>
        /\ ChargedAfterAssign => ChargeDue
        /\ ChargeDue => ChargedAfterAssign \/ KeptCharge
        /\ ChargeDue /\ resv[last.r].ri_state = RESV_RUNNING
              => resv[last.r].ri_giveback = 1

(***************************************************************************)
(* The scan for conflicts                                                  *)
(***************************************************************************)
\* degrade_overlapping_resv ran for last.r and returned
ScanReturned == Confirming /\ Scanned /\ pc # "hung"

\* the reservations that the scan put in conflict
Evicted ==
    {t \in Resvs : /\ resv[t].ri_substate = RESV_IN_CONFLICT
                   /\ last.dpre[1].resv[t].ri_substate # RESV_IN_CONFLICT}

\* C24: after degrade_overlapping_resv(R) returned, the list of no node
\* held by R has an entry of another reservation that is not the
\* maintenance reservation, not UNCONFIRMED and overlaps R in time
C24_NoConflictLeft ==
    ScanReturned =>
        \A i \in 1..Len(resv[last.r].ri_pbsnode_list) :
            first_conflict(Cur, last.r, resv[last.r].ri_pbsnode_list[i]) = 0

C24_Witness ==
    /\ ScanReturned
    /\ Cardinality(Evicted) = 2
    /\ Len(resv[last.r].ri_pbsnode_list) > 0

(***************************************************************************)
(* When the scan runs                                                      *)
(***************************************************************************)
IsMaintenance(r) == r[1] = PBS_MNTNC_RESV_ID_CHAR

\* the request was a confirmation that went through to the end: the nodes
\* were assigned, nothing was rejected and the reservation still exists
ConfirmedToEnd ==
    /\ Confirming /\ InTr("set_nodes", last.r) /\ ~Rejected
    /\ ~resv[last.r].purged

\* what a request for one reservation must leave alone in another
OtherView(s, t) ==
    [ri_state |-> s.resv[t].ri_state, ri_substate |-> s.resv[t].ri_substate,
     retry |-> s.resv[t].retry, nodes |-> NodeSet(s, t)]

OthersUntouched ==
    \A t \in Resvs \ {last.r} : OtherView(Cur, t) = OtherView(last.pre[1], t)

\* the scan was called after the reservation's nodes were assigned and the
\* reservation saved, and before every acknowledgement
ScanInOrder ==
    \A k \in At("degrade_overlapping_resv") :
        /\ \E i \in At("set_nodes") : i < k
        /\ \E i \in At("resv_save_db") : i < k /\ last.tr[i] = <<"resv_save_db", last.r>>
        /\ \A i \in At("reply_ack") : k < i

\* C25: the scan for conflicts runs at the end of a confirmation that went
\* through if and only if the reservation is the maintenance reservation; a
\* request for an ordinary reservation leaves state, substate, node set and
\* retry timer of every other reservation as they were; the scan of a
\* maintenance reservation comes after its nodes were assigned and saved and
\* before the request is acknowledged
C25_ScanOnlyForMaintenance ==
    /\ ConfirmedToEnd => (At("degrade_overlapping_resv") # {} <=> IsMaintenance(last.r))
    /\ Confirming /\ ~IsMaintenance(last.r) =>
          At("degrade_overlapping_resv") = {} /\ OthersUntouched
    /\ Confirming => ScanInOrder /\ Cardinality(At("degrade_overlapping_resv")) <= 1

(***************************************************************************)
(* The end of an alteration                                                *)
(***************************************************************************)
\* the request was a confirmation that completed an alteration
AlterCompleted ==
    /\ ConfirmedToEnd
    /\ EntryOf(last.r).ra_flags # {}

\* the reservation ran before the alteration and is confirmed now
BackToConfirmed ==
    /\ EntryOf(last.r).ra_state = RESV_RUNNING
    /\ resv[last.r].ri_state = RESV_CONFIRMED

\* C26: after a confirmation that completes an alteration the alteration
\* flags are all clear; a reservation that ran before the alteration and is
\* CONFIRMED now has its queue stopped and giveback clear, and its charge
\* was taken from the counters once, never twice
C26_AlterationCompleted ==
    AlterCompleted =>
        /\ resv[last.r].ra_flags = {}
        /\ BackToConfirmed =>
              /\ ~resv[last.r].qstarted
              /\ InTr("change_start", last.r)
              /\ resv[last.r].ri_giveback = 0
              /\ resv[last.r].charge = 0
              /\ Count(DECR) = Count(INCR) + EntryOf(last.r).ri_giveback

C26_Witness ==
    /\ AlterCompleted /\ BackToConfirmed
    /\ EntryOf(last.r).ri_giveback = 1
    /\ EntryOf(last.r).qstarted
    /\ InTr(DECR, last.r)

(***************************************************************************)
(* The two sides of the ledger                                             *)
(***************************************************************************)
\* in state s the node list of r and the nodes' lists agree about r
Consistent(s, r) ==
    \A n \in Nodes :
        /\ n \in SeqToSet(s.resv[r].ri_pbsnode_list) <=> Holds(s.nd_resvp[n], r)
        /\ Entries(s.nd_resvp[n], r) <= 1

\* C27: a ledger whose two sides agree before remove_host_from_resv or
\* degrade_overlapping_resv has them agree afterwards: a node is in a
\* reservation's node list if and only if the node's list has an entry for
\* the reservation, and no node's list has two entries for one reservation
C27_LedgerConsistent ==
    /\ Removing /\ Consistent(last.pre[1], last.r) => Consistent(Cur, last.r)
    /\ Scanned /\ (\A t \in Resvs : Consistent(AtScan, t))
          => \A t \in Resvs : Consistent(Cur, t)

(***************************************************************************)
(* After the purge                                                         *)
(***************************************************************************)
\* the positions in the trace at which the reservation of the request was
\* purged
PurgedAt == {k \in At("resv_purge") : last.tr[k] = <<"resv_purge", last.r>>}

\* the positions at which freed memory of the reservation was read or
\* written
FreedUseAt == At("read_freed") \cup At("write_freed")

\* C28: once req_confirmresv purged the reservation, the same call reads
\* and writes no field of it before it returns
C28_NoUseAfterPurge ==
    Confirming => \A k \in PurgedAt : \A j \in FreedUseAt : j < k

=============================================================================
